---- MODULE Spec2Model ----
(***************************************************************************)
(* Goal Progress & Achievement Engine of fittrack-api.                     *)
(*                                                                         *)
(* The Firestore collections are the shared state.  Every service call,    *)
(* job run and repository call is a process whose steps are its awaits:    *)
(* one store read or write per step, with the synchronous code between two *)
(* awaits executed together with the await that precedes it.               *)
(***************************************************************************)
EXTENDS Integers, Sequences, FiniteSets, TLC

(***************************************************************************)
(* Bounds of the model                                                     *)
(***************************************************************************)
NumGoals == 2
NumProcs == 2
MaxTime == 1
MaxFaults == 1
MaxSamples == 3
NumWorkouts == 1
NumPlans == 1
MaxPlanWorkouts == 2

(***************************************************************************)
(* Value domains                                                           *)
(***************************************************************************)
GoalIds == 1..NumGoals
ProcIds == 1..NumProcs
WorkoutIds == 1..NumWorkouts
PlanIds == 1..NumPlans
MetricIds == 1..MaxSamples
Users == {"u1", "u2"}
NoUser == "nobody"
GoalStatus == {"active", "completed", "abandoned", "expired"}
TerminalStatus == {"completed", "abandoned", "expired"}
GoalType == {"weight", "body_fat", "strength", "workout_frequency", "custom"}
JobNames == {"expire-goals", "update-goal-progress", "cleanup-old-logs"}
UnknownJob == "not-a-real-job"

\* undefined (absent) values of optional fields
Undef == -1
NoStatus == "none"
NoDoc == [id |-> 0]
NoTarget == [exerciseId |-> "none", targetWeight |-> Undef, targetReps |-> Undef]
NoFreq == [workoutsPerWeek |-> Undef, workoutsPerMonth |-> Undef]

\* deadlines offered to createGoal: one the clock passes, one it never reaches
NearDeadline == 0
FarDeadline == 1000

\* trailing windows of the frequency goals, in days (one clock tick = a day)
WeekWindow == 7
MonthWindow == 30
\* age, in days, beyond which a job log is deleted, and Firestore's batch limit
RetentionDays == 90
BatchLimit == 500

(***************************************************************************)
(* Percentages are exact rationals <<n, d>>, d > 0, in lowest terms;       *)
(* <<0, 0>> is the undefined percentage.                                   *)
(***************************************************************************)
PctUndef == <<0, 0>>

Abs(x) == IF x < 0 THEN -x ELSE x

RECURSIVE GCD(_, _)
GCD(a, b) == IF b = 0 THEN a ELSE GCD(b, a % b)

\* the rational n/d (d # 0) in lowest terms with positive denominator
Ratio(n, d) ==
    LET s == IF d < 0 THEN -1 ELSE 1
        g == GCD(Abs(n), Abs(d))
    IN  <<(s * n) \div g, (s * d) \div g>>

\* Math.min(100, q) and Math.max(0, q) on rationals
MinHundred(q) == IF q[1] > 100 * q[2] THEN <<100, 1>> ELSE q
MaxZero(q) == IF q[1] < 0 THEN <<0, 1>> ELSE q

(***************************************************************************)
(* State                                                                   *)
(***************************************************************************)
VARIABLES
    clock,      \* the wall clock read by new Date(), in days
    goals,      \* the "goals" collection: goal id -> document, or NoDoc
    nextGoal,   \* the number of createGoal calls made so far, plus one
    metrics,    \* the "bodyMetrics" collection: user -> documents, latest date first
    prs,        \* the "personalRecords" collection: a set of documents
    workouts,   \* the "workoutProgress" collection: a set of documents
    workoutDocs,    \* the "workouts" collection: workout id -> document, or NoDoc
    workoutPlans,   \* the "workoutPlans" collection: plan id -> document, or NoDoc
    workoutPlanEnrollments, \* the "workoutPlanEnrollments" collection: a set of documents
    jobLogs,    \* the "jobLogs" collection: the set of appended documents
    procs,      \* the calls in flight or finished: process id -> its frame
    faults,     \* store failures the environment may still inject
    scheduledJobs,  \* JobScheduler.scheduledJobs: job name -> its task, or 0
    cronTasks,      \* the tasks cron.schedule has created, in order of creation
    lastCall        \* the latest call of a trigger-management operation and its result

planVars == <<workoutPlans, workoutPlanEnrollments>>
storeVars == <<goals, nextGoal, metrics, prs, workouts, workoutDocs, jobLogs, planVars>>
schedVars == <<scheduledJobs, cronTasks, lastCall>>
vars == <<clock, goals, nextGoal, metrics, prs, workouts, workoutDocs, jobLogs, planVars,
          procs, faults,
          scheduledJobs, cronTasks, lastCall>>

\* a Goal document (the fields the engine reads or writes); the documents a
\* behaviour starts with were created the day before the clock starts
GoalDoc(id, userId, dto) ==
    [id |-> id, userId |-> userId, type |-> dto.type,
     targetWeight |-> dto.targetWeight, targetBodyFat |-> dto.targetBodyFat,
     strengthTarget |-> dto.strengthTarget, frequencyTarget |-> dto.frequencyTarget,
     startValue |-> dto.startValue, currentValue |-> dto.startValue,
     currentProgress |-> <<0, 1>>, deadline |-> dto.deadline,
     completedAt |-> Undef, status |-> "active", createdAt |-> 0 - 1]

\* the document as GoalRepository.create stamps it at time t
CreatedAt(doc, t) == [doc EXCEPT !.createdAt = t]

\* a CreateGoalDto
Dto(type, tw, tbf, st, ft, sv, dl) ==
    [type |-> type, targetWeight |-> tw, targetBodyFat |-> tbf, strengthTarget |-> st,
     frequencyTarget |-> ft, startValue |-> sv, deadline |-> dl]

\* no CreateGoalDto
NoDto == Dto("none", Undef, Undef, NoTarget, NoFreq, Undef, Undef)

\* an UpdateGoalDto / GoalProgressUpdate / Firestore update map: the fields it carries
NoPatch ==
    [status |-> NoStatus, deadline |-> Undef, completedAt |-> Undef,
     currentValue |-> Undef, currentProgress |-> PctUndef,
     targetWeight |-> Undef, targetBodyFat |-> Undef,
     strengthTarget |-> NoTarget, frequencyTarget |-> NoFreq]
StatusPatch(s) == [NoPatch EXCEPT !.status = s]
DeadlinePatch(d) == [NoPatch EXCEPT !.deadline = d]
ProgressPatch(cv, cp) == [NoPatch EXCEPT !.currentValue = cv, !.currentProgress = cp]
TargetWeightPatch(tw) == [NoPatch EXCEPT !.targetWeight = tw]
StrengthTargetPatch(st) == [NoPatch EXCEPT !.strengthTarget = st]

\* a JobResult
NoResult ==
    [jobName |-> "none", status |-> "none", startTime |-> Undef, endTime |-> Undef,
     itemsProcessed |-> Undef, error |-> "none"]
JobResult(name, status, startTime, endTime, items, error) ==
    [jobName |-> name, status |-> status, startTime |-> startTime, endTime |-> endTime,
     itemsProcessed |-> items, error |-> error]

\* a personal record, a candidate performance and a logged completion, absent
NoPR == [id |-> 0, userId |-> NoUser, exerciseId |-> "none", weight |-> Undef,
         reps |-> Undef, achievedAt |-> Undef, workoutProgressId |-> Undef,
         createdAt |-> Undef, updatedAt |-> Undef]
NoSample == [id |-> 0, weight |-> Undef, bodyFat |-> Undef]
NoCand == [exerciseId |-> "none", weight |-> Undef, reps |-> Undef]
NoWP == [id |-> Undef, completedAt |-> Undef]

\* the frame of a process
IdleProc ==
    [op |-> "idle", pc |-> "none", user |-> NoUser, goal |-> 0, patch |-> NoPatch,
     rfn |-> "none", rgoal |-> 0, updates |-> NoPatch, pending |-> NoPatch,
     snap |-> <<>>, i |-> 0, now |-> Undef, count |-> 0, acc |-> <<>>,
     job |-> "none", trig |-> "none", startTime |-> Undef, result |-> NoResult,
     logAt |-> Undef, dto |-> NoDto,
     outcome |-> "none", err |-> "none", ret |-> NoDoc,
     batch |-> {},
     \* completeWorkout and upsertPersonalRecord
     workout |-> 0, role |-> "none", wstatus |-> "none",
     \* enrollUserInPlan
     plan |-> 0, planDoc |-> NoDoc, created |-> {},
     metric |-> 0, sample |-> NoSample,
     exs |-> <<>>, cand |-> NoCand, wp |-> NoWP, found |-> NoPR,
     rec |-> NoPR, news |-> <<>>,
     \* history of the call, read by the properties only
     before |-> <<>>, wrote |-> {}, handled |-> {}, failed |-> {}, topError |-> FALSE,
     logged |-> 0, upserts |-> <<>>, changed |-> {}, reported |-> {}, divisors |-> {}]

Running(p) == procs[p].op # "idle" /\ procs[p].outcome = "running"
Idle(p) == procs[p].op = "idle"

(***************************************************************************)
(* Progress Calculator: the computations of the live refresh               *)
(* (GoalService.updateGoalProgress) and of the scheduled refresh           *)
(* (UpdateGoalProgressJob)                                                 *)
(***************************************************************************)
PctNaN == <<1, 0>>

\* the calculation without the floor at 0
ChangePctNoFloor(currentValue, startValue, target) ==
    MinHundred(Ratio((currentValue - startValue) * 100, target - startValue))

\* Math.min(100, Math.max(0, (currentChange / totalChange) * 100))
ChangePct(currentValue, startValue, target) ==
    MinHundred(MaxZero(Ratio((currentValue - startValue) * 100, target - startValue)))

\* Math.min(100, (part / whole) * 100), for part >= 0 and whole >= 0: a positive
\* part over zero is Infinity, which Math.min brings to 100, and 0 / 0 is NaN
SharePct(part, whole) ==
    IF whole = 0 THEN (IF part = 0 THEN PctNaN ELSE <<100, 1>>)
    ELSE MinHundred(Ratio(part * 100, whole))

TypeValue(g, sample) == IF g.type = "weight" THEN sample.weight ELSE sample.bodyFat
TypeTarget(g) == IF g.type = "weight" THEN g.targetWeight ELSE g.targetBodyFat

\* live refresh of a weight / body_fat goal from the samples, latest first
LiveWeightUpdate(g, samples) ==
    IF Len(samples) = 0 THEN NoPatch
    ELSE LET cv == TypeValue(g, samples[1])
             cp == IF cv # Undef /\ g.startValue # Undef
                      /\ (g.targetWeight # Undef \/ g.targetBodyFat # Undef)
                   THEN IF TypeTarget(g) = Undef THEN PctNaN
                        ELSE IF TypeTarget(g) - g.startValue # 0
                             THEN ChangePct(cv, g.startValue, TypeTarget(g))
                             ELSE PctUndef
                   ELSE PctUndef
         IN  ProgressPatch(cv, cp)

\* scheduled refresh of a weight / body_fat goal
JobWeightUpdate(g, samples) ==
    IF Len(samples) = 0 THEN NoPatch
    ELSE LET cv == TypeValue(g, samples[1])
         IN  IF cv # Undef /\ g.startValue # Undef /\ TypeTarget(g) # Undef
                /\ TypeTarget(g) - g.startValue # 0
             THEN ProgressPatch(cv, ChangePct(cv, g.startValue, TypeTarget(g)))
             ELSE NoPatch

\* the records prs.find(...) may return from findPersonalRecordsByUser (ordered by
\* achievedAt, latest first): the latest ones of the exercise, or NoPR
ExercisePRs(userId, exerciseId) ==
    LET mine == {r \in prs : r.userId = userId /\ r.exerciseId = exerciseId}
        latest == {r \in mine : \A q \in mine : q.achievedAt <= r.achievedAt}
    IN  IF mine = {} THEN {NoPR} ELSE latest

TargetMet(g, pr) ==
    pr.weight >= g.strengthTarget.targetWeight /\ pr.reps >= g.strengthTarget.targetReps

StrengthPct(g, pr) == SharePct(pr.weight, g.strengthTarget.targetWeight)

\* a window of a month whatever the target
FreqWindowMonthOnly(ft) == MonthWindow

\* the trailing window of a frequency target, and its target count
FreqWindow(ft) == IF ft.workoutsPerWeek # Undef THEN WeekWindow ELSE MonthWindow
FreqTarget(ft) == IF ft.workoutsPerWeek # Undef THEN ft.workoutsPerWeek ELSE ft.workoutsPerMonth
HasFreq(ft) == ft.workoutsPerWeek # Undef \/ ft.workoutsPerMonth # Undef

\* findWorkoutProgressByUser(userId, now - window, now).length
WorkoutCount(userId, window, now) ==
    Cardinality({w \in workouts :
        w.userId = userId /\ w.completedAt >= now - window /\ w.completedAt <= now})

FrequencyPct(g, now) ==
    SharePct(WorkoutCount(g.userId, FreqWindow(g.frequencyTarget), now),
             FreqTarget(g.frequencyTarget))

\* a denominator: the number x as <<x, 1>>, and NaN (undefined - startValue)
Denominator(x) == <<x, 1>>
DenominatorNaN == <<0, 0>>

\* the denominators of the divisions the refresh of goal g performs, r being the
\* record prs.find(...) returned.  The live path divides by totalChange whenever
\* either target is defined and totalChange !== 0, which NaN passes; the job
\* tests the target of the goal's own type first
Divisors(g, r, live, samples) ==
    CASE g.type \in {"weight", "body_fat"} ->
           IF Len(samples) > 0 /\ TypeValue(g, samples[1]) # Undef /\ g.startValue # Undef
           THEN IF TypeTarget(g) # Undef
                THEN IF TypeTarget(g) - g.startValue # 0
                     THEN {Denominator(TypeTarget(g) - g.startValue)} ELSE {}
                ELSE IF live /\ (g.targetWeight # Undef \/ g.targetBodyFat # Undef)
                     THEN {DenominatorNaN} ELSE {}
           ELSE {}
      [] g.type = "strength" ->
           IF r # NoPR /\ ~TargetMet(g, r)
           THEN {Denominator(g.strengthTarget.targetWeight)} ELSE {}
      [] OTHER -> {Denominator(FreqTarget(g.frequencyTarget))}

\* does the refresh of goal g read the store (metrics, records or completions)?
NeedsRead(g) ==
    \/ g.type \in {"weight", "body_fat"}
    \/ g.type = "strength" /\ g.strengthTarget # NoTarget
    \/ g.type = "workout_frequency" /\ HasFreq(g.frequencyTarget)

(***************************************************************************)
(* Store access                                                            *)
(***************************************************************************)
Exists(g) == goals[g].id # 0

\* DocumentReference.update(updates): the defined fields overwrite the document's
\* (db.settings({ignoreUndefinedProperties: true}) drops the undefined ones)
Merge(doc, u) ==
    [doc EXCEPT
        !.status = IF u.status # NoStatus THEN u.status ELSE @,
        !.deadline = IF u.deadline # Undef THEN u.deadline ELSE @,
        !.completedAt = IF u.completedAt # Undef THEN u.completedAt ELSE @,
        !.currentValue = IF u.currentValue # Undef THEN u.currentValue ELSE @,
        !.currentProgress = IF u.currentProgress # PctUndef THEN u.currentProgress ELSE @,
        !.targetWeight = IF u.targetWeight # Undef THEN u.targetWeight ELSE @,
        !.targetBodyFat = IF u.targetBodyFat # Undef THEN u.targetBodyFat ELSE @,
        !.strengthTarget = IF u.strengthTarget # NoTarget THEN u.strengthTarget ELSE @,
        !.frequencyTarget = IF u.frequencyTarget # NoFreq THEN u.frequencyTarget ELSE @]

\* the update map GoalRepository.update builds from updateData once it has read the
\* document: completedAt is stamped when the status is being changed to completed
UpdateMap(updateData, doc) ==
    [updateData EXCEPT !.completedAt =
        IF updateData.status = "completed" /\ doc.status # "completed"
        THEN clock ELSE Undef]

\* the documents of the collection in the store's enumeration order (by id)
AllGoalDocs == [k \in 1..NumGoals |-> goals[k]]

RECURSIVE NewestFirst(_)
\* orderBy("createdAt", "desc") on the documents of S: the later creation first, and
\* documents created at the same time in descending order of document name
NewestFirst(S) ==
    IF S = {} THEN <<>>
    ELSE LET d == CHOOSE x \in S :
                     \A y \in S : \/ y.createdAt < x.createdAt
                                  \/ y.createdAt = x.createdAt /\ y.id <= x.id
         IN  <<d>> \o NewestFirst(S \ {d})

\* GoalRepository.findAllActiveGoals(): where status == "active"
FindAllActiveGoals ==
    LET keep(d) == d.id # 0 /\ d.status = "active"
    IN  SelectSeq(AllGoalDocs, keep)

\* GoalRepository.findByUser(userId, {status: "active"}): newest first
FindActiveByUser(userId) ==
    NewestFirst({goals[g] : g \in {k \in GoalIds : /\ goals[k].id # 0
                                                  /\ goals[k].userId = userId
                                                  /\ goals[k].status = "active"}})

(***************************************************************************)
(* Control flow of the calls: what the code does, synchronously, after an  *)
(* awaited store call has returned or thrown                               *)
(***************************************************************************)
Finish(pr, doc) ==
    [pr EXCEPT !.pc = "done", !.rfn = "none", !.outcome = "returned", !.ret = doc]

Threw(pr, e) ==
    [pr EXCEPT !.pc = "done", !.rfn = "none", !.outcome = "threw", !.err = e]

\* the job's unit of work ended: executeJob goes on to logJobExecution, which reads
\* the clock for createdAt before it awaits the write
JobDone(pr, status, items, error) ==
    [pr EXCEPT !.pc = "log", !.rfn = "none", !.logAt = clock,
               !.result = JobResult(pr.job, status, pr.startTime, clock, items, error)]

\* the repository call the process makes next
CallRepo(pr, fn, g, data) ==
    [pr EXCEPT !.pc = "get", !.rfn = fn, !.rgoal = g, !.updates = data]

\* a sweep that also expires the goals whose deadline is now
PastDeadlineOrNow(goal, now) == goal.deadline <= now

\* the expiry test of both sweeps: goal.deadline < now
PastDeadline(goal, now) == goal.deadline < now

RECURSIVE ExpireLoop(_)
\* the loop of ExpireGoalsJob.execute and of checkExpiredGoals, from index pr.i on:
\* it runs on to the next goal past its deadline, or to the end of the snapshot
ExpireLoop(pr) ==
    IF pr.i > Len(pr.snap)
    THEN IF pr.op = "checkExpiredGoals" THEN Finish(pr, NoDoc)
         ELSE JobDone(pr, "success", pr.count, "none")
    ELSE IF PastDeadline(pr.snap[pr.i], pr.now)
         THEN CallRepo(pr, "update", pr.snap[pr.i].id, StatusPatch("expired"))
         ELSE ExpireLoop([pr EXCEPT !.i = @ + 1])

RECURSIVE ProgressLoop(_)
\* the loop of UpdateGoalProgressJob.execute, from index pr.i on: it runs on to the
\* next goal whose refresh reads the store, or to the end of the snapshot
ProgressLoop(pr) ==
    IF pr.i > Len(pr.snap) THEN JobDone(pr, "success", pr.count, "none")
    ELSE LET g == pr.snap[pr.i]
         IN  IF NeedsRead(g) THEN [pr EXCEPT !.pc = "read", !.rfn = "none", !.now = clock]
             ELSE IF g.type = "custom" THEN ProgressLoop([pr EXCEPT !.i = @ + 1])
             ELSE ProgressLoop([pr EXCEPT !.i = @ + 1, !.count = @ + 1,
                                          !.handled = @ \cup {g.id}])

\* a repository call returned doc to its caller
Returned(pr, doc) ==
    CASE pr.op \in {"completeGoal", "abandonGoal", "updateGoal"} -> Finish(pr, doc)
      [] pr.op = "updateGoalProgress" ->
            IF pr.rfn = "update"
            THEN CallRepo(pr, "updateProgress", pr.goal, pr.pending)
            ELSE Finish(pr, doc)
      [] pr.op = "checkExpiredGoals" ->
            ExpireLoop([pr EXCEPT !.acc = Append(@, doc), !.i = @ + 1])
      [] pr.op = "executeJob" /\ pr.job = "expire-goals" ->
            ExpireLoop([pr EXCEPT !.count = @ + 1, !.i = @ + 1])
      [] OTHER ->
            ProgressLoop([pr EXCEPT !.count = @ + 1, !.i = @ + 1,
                                    !.handled = @ \cup {pr.snap[pr.i].id}])

\* a job whose per-goal failures reach the outer catch block
RaiseWithoutIsolation(pr, e) ==
    CASE pr.op # "executeJob" -> Threw(pr, e)
      [] pr.op = "executeJob" /\ pr.pc = "log" -> Threw(pr, e)
      [] OTHER ->
            JobDone([pr EXCEPT !.topError = pr.pc \in {"load", "query", "commit"},
                               !.failed = IF pr.pc \in {"get", "write", "reread"}
                                          THEN @ \cup {pr.rgoal} ELSE @],
                    "failure", 0, e)

\* a store call of the process threw e
Raise(pr, e) ==
    CASE pr.op # "executeJob" -> Threw(pr, e)
      [] pr.op = "executeJob" /\ pr.pc = "log" -> Threw(pr, e)
      [] pr.op = "executeJob" /\ pr.pc # "log" /\ pr.job = "update-goal-progress"
         /\ pr.pc # "load" ->
            ProgressLoop([pr EXCEPT !.failed = @ \cup {pr.snap[pr.i].id}, !.i = @ + 1])
      [] OTHER ->
            JobDone([pr EXCEPT !.topError = pr.pc \in {"load", "query", "commit"},
                               !.failed = IF pr.pc \in {"get", "write", "reread"}
                                          THEN @ \cup {pr.rgoal} ELSE @],
                    "failure", 0, e)

(***************************************************************************)
(* Environment: time passes; a store call fails                            *)
(***************************************************************************)
\* no workout plan and no enrolment is stored
PlansEmpty ==
    /\ workoutPlans = [k \in PlanIds |-> NoDoc]
    /\ workoutPlanEnrollments = {}

Tick ==
    /\ clock < MaxTime
    /\ clock' = clock + 1
    /\ UNCHANGED <<storeVars, procs, faults, schedVars>>

\* the store call process p is waiting on throws (a transient store failure)
StoreFault(p) ==
    /\ Running(p)
    /\ faults > 0
    /\ faults' = faults - 1
    /\ procs' = [procs EXCEPT ![p] = Raise(procs[p], "StoreError")]
    /\ UNCHANGED <<clock, storeVars, schedVars>>

(***************************************************************************)
(* Goal service: the calls of the owner                                    *)
(***************************************************************************)
NewCall(op, user, goal, patch, pc) ==
    [IdleProc EXCEPT !.op = op, !.pc = pc, !.user = user, !.goal = goal,
                     !.patch = patch, !.outcome = "running"]

\* the document ids doc() may hand out: auto-generated, so never the id of a stored
\* document nor one a call holds
FreshGoalIds ==
    {g \in GoalIds :
        /\ ~Exists(g)
        /\ \A p \in ProcIds :
              /\ procs[p].goal # g /\ procs[p].rgoal # g
              /\ \A k \in 1..Len(procs[p].snap) : procs[p].snap[k].id # g}

\* GoalService.createGoal reaches GoalRepository.create, which reads the clock for
\* createdAt before it awaits the write
EnterCreate(pr) == [pr EXCEPT !.pc = "cset", !.now = clock]

\* GoalService.createGoal(userId, goalData) up to its first await: a weight or
\* body_fat goal without a start value reads the body metrics first
CallCreateGoal(p, userId, dto) ==
    LET call == [NewCall("createGoal", userId, 0, NoPatch, "cmetrics") EXCEPT !.dto = dto]
    IN  /\ Idle(p)
        /\ nextGoal <= NumGoals
        /\ procs' = [procs EXCEPT ![p] =
              IF dto.type \in {"weight", "body_fat"} /\ dto.startValue \in {Undef, 0}
              THEN call ELSE EnterCreate(call)]
        /\ nextGoal' = nextGoal + 1
        /\ UNCHANGED <<clock, planVars, goals, metrics, prs, workouts, workoutDocs, jobLogs, faults,
                       schedVars>>

\* findBodyMetricsByUser(userId): the start value defaults to the latest sample
StepCreateMetrics(p) ==
    LET pr == procs[p]
        ms == metrics[pr.user]
        latest == IF Len(ms) > 0 THEN TypeValue(pr.dto, ms[1]) ELSE Undef
        sv == IF latest \notin {Undef, 0} THEN latest ELSE pr.dto.startValue
    IN  /\ Running(p) /\ pr.pc = "cmetrics"
        /\ procs' = [procs EXCEPT ![p] = EnterCreate([pr EXCEPT !.dto.startValue = sv])]
        /\ UNCHANGED <<clock, storeVars, faults, schedVars>>

\* goalRef.set(goal) on the new document: the goal is stored active
StepCreateSet(p) ==
    LET pr == procs[p]
    IN  /\ Running(p) /\ pr.pc = "cset"
        /\ \E g \in FreshGoalIds :
              LET doc == CreatedAt(GoalDoc(g, pr.user, pr.dto), pr.now)
              IN  /\ goals' = [goals EXCEPT ![g] = doc]
                  /\ procs' = [procs EXCEPT ![p] = Finish(pr, doc)]
        /\ UNCHANGED <<clock, planVars, nextGoal, metrics, prs, workouts, workoutDocs, jobLogs, faults,
                       schedVars>>

\* GoalService.deleteGoal as a call: findById and the ownership check, then
\* GoalRepository.delete (a read, then the delete)
CallDeleteGoal(p, userId, g) ==
    /\ Idle(p)
    /\ procs' = [procs EXCEPT ![p] = NewCall("deleteGoal", userId, g, NoPatch, "dfind")]
    /\ UNCHANGED <<clock, storeVars, faults, schedVars>>

StepDeleteFind(p) ==
    LET pr == procs[p]
        doc == goals[pr.goal]
    IN  /\ Running(p) /\ pr.pc = "dfind"
        /\ procs' = [procs EXCEPT ![p] =
              IF doc.id = 0 THEN Threw(pr, "NotFound")
              ELSE IF doc.userId # pr.user THEN Threw(pr, "Authorization")
              ELSE [pr EXCEPT !.pc = "dget", !.rfn = "delete", !.rgoal = pr.goal]]
        /\ UNCHANGED <<clock, storeVars, faults, schedVars>>

StepDeleteGet(p) ==
    LET pr == procs[p]
    IN  /\ Running(p) /\ pr.pc = "dget"
        /\ procs' = [procs EXCEPT ![p] =
              IF goals[pr.rgoal].id = 0 THEN Threw(pr, "NotFound")
              ELSE [pr EXCEPT !.pc = "ddelete"]]
        /\ UNCHANGED <<clock, storeVars, faults, schedVars>>

\* goalRef.delete(): succeeds whether or not the document is there
StepDeleteDoc(p) ==
    LET pr == procs[p]
    IN  /\ Running(p) /\ pr.pc = "ddelete"
        /\ goals' = [goals EXCEPT ![pr.rgoal] = NoDoc]
        /\ procs' = [procs EXCEPT ![p] = Finish(pr, NoDoc)]
        /\ UNCHANGED <<clock, planVars, nextGoal, metrics, prs, workouts, workoutDocs, jobLogs, faults,
                       schedVars>>

CallCompleteGoal(p, userId, g) ==
    /\ Idle(p)
    /\ procs' = [procs EXCEPT ![p] =
                    NewCall("completeGoal", userId, g, StatusPatch("completed"), "find")]
    /\ UNCHANGED <<clock, storeVars, faults, schedVars>>

CallAbandonGoal(p, userId, g) ==
    /\ Idle(p)
    /\ procs' = [procs EXCEPT ![p] =
                    NewCall("abandonGoal", userId, g, StatusPatch("abandoned"), "find")]
    /\ UNCHANGED <<clock, storeVars, faults, schedVars>>

CallUpdateGoal(p, userId, g, updateData) ==
    /\ Idle(p)
    /\ procs' = [procs EXCEPT ![p] = NewCall("updateGoal", userId, g, updateData, "find")]
    /\ UNCHANGED <<clock, storeVars, faults, schedVars>>

CallUpdateGoalProgress(p, userId, g) ==
    /\ Idle(p)
    /\ procs' = [procs EXCEPT ![p] =
                    NewCall("updateGoalProgress", userId, g, NoPatch, "find")]
    /\ UNCHANGED <<clock, storeVars, faults, schedVars>>

CallCheckExpiredGoals(p, userId) ==
    /\ Idle(p)
    /\ procs' = [procs EXCEPT ![p] =
                    NewCall("checkExpiredGoals", userId, 0, NoPatch, "load")]
    /\ UNCHANGED <<clock, storeVars, faults, schedVars>>

\* findById with no ownership check
StepFindNoOwnerCheck(p) ==
    LET pr == procs[p]
        doc == goals[pr.goal]
    IN  /\ Running(p) /\ pr.pc = "find"
        /\ procs' = [procs EXCEPT ![p] =
              IF doc.id = 0 THEN Threw(pr, "NotFound")
              ELSE IF pr.op # "updateGoalProgress"
                   THEN CallRepo(pr, "update", pr.goal, pr.patch)
              ELSE IF NeedsRead(doc)
                   THEN [pr EXCEPT !.pc = "read", !.snap = <<doc>>, !.i = 1, !.now = clock,
                                   !.before = goals]
              ELSE Finish(pr, doc)]
        /\ UNCHANGED <<clock, storeVars, faults, schedVars>>

\* the service's findById and its ownership check
StepFind(p) ==
    LET pr == procs[p]
        doc == goals[pr.goal]
    IN  /\ Running(p) /\ pr.pc = "find"
        /\ procs' = [procs EXCEPT ![p] =
              IF doc.id = 0 THEN Threw(pr, "NotFound")
              ELSE IF doc.userId # pr.user THEN Threw(pr, "Authorization")
              ELSE IF pr.op # "updateGoalProgress"
                   THEN CallRepo(pr, "update", pr.goal, pr.patch)
              ELSE IF NeedsRead(doc)
                   THEN [pr EXCEPT !.pc = "read", !.snap = <<doc>>, !.i = 1, !.now = clock,
                                   !.before = goals]
              ELSE Finish(pr, doc)]
        /\ UNCHANGED <<clock, storeVars, faults, schedVars>>

\* the read of the metric history the refresh of one goal makes, and what follows
StepRead(p) ==
    LET pr == procs[p]
        g == pr.snap[pr.i]
        live == pr.op = "updateGoalProgress"
        skip == IF live THEN Finish(pr, g)
                ELSE ProgressLoop([pr EXCEPT !.count = @ + 1, !.i = @ + 1,
                                             !.handled = @ \cup {g.id}])
    IN  /\ Running(p) /\ pr.pc = "read"
        /\ \E r \in ExercisePRs(g.userId, g.strengthTarget.exerciseId) :
             procs' = [procs EXCEPT ![p] =
              [CASE g.type \in {"weight", "body_fat"} ->
                      LET u == IF live THEN LiveWeightUpdate(g, metrics[g.userId])
                               ELSE JobWeightUpdate(g, metrics[g.userId])
                      IN  IF u = NoPatch THEN skip
                          ELSE CallRepo(pr, "updateProgress", g.id, u)
                 [] g.type = "strength" ->
                      IF r = NoPR THEN skip
                      ELSE IF TargetMet(g, r)
                      THEN [CallRepo(pr, "update", g.id, StatusPatch("completed"))
                               EXCEPT !.pending = IF live THEN ProgressPatch(Undef, <<100, 1>>)
                                                  ELSE NoPatch]
                      ELSE CallRepo(pr, "updateProgress", g.id,
                                    ProgressPatch(Undef, StrengthPct(g, r)))
                 [] OTHER ->
                      CallRepo(pr, "updateProgress", g.id,
                               ProgressPatch(Undef, FrequencyPct(g, pr.now)))
               EXCEPT !.divisors =
                         pr.divisors \cup Divisors(g, r, live, metrics[g.userId])]]
        /\ UNCHANGED <<clock, storeVars, faults, schedVars>>

(***************************************************************************)
(* Body metrics: logBodyMetrics, updateBodyMetrics and deleteBodyMetrics   *)
(***************************************************************************)
\* where the body-metric document m is stored: <<owner, position in the owner's list>>
MetricPlaces(m) ==
    {pl \in Users \X (1..MaxSamples) :
        pl[2] <= Len(metrics[pl[1]]) /\ metrics[pl[1]][pl[2]].id = m}

\* the sequence with x put at position k, and the sequence without its k-th entry
InsertAt(sq, k, x) == SubSeq(sq, 1, k - 1) \o <<x>> \o SubSeq(sq, k, Len(sq))
RemoveAt(sq, k) == SubSeq(sq, 1, k - 1) \o SubSeq(sq, k + 1, Len(sq))

\* ProgressService.logBodyMetrics(userId, metricsData) up to its await; the date the
\* sample carries puts it at position k of the user's samples, latest first
CallLogBodyMetrics(p, userId, sample, k) ==
    /\ Idle(p)
    /\ procs' = [procs EXCEPT ![p] =
          [NewCall("logBodyMetrics", userId, 0, NoPatch, "mset") EXCEPT
              !.sample = sample, !.i = k]]
    /\ UNCHANGED <<clock, storeVars, faults, schedVars>>

\* ProgressService.updateBodyMetrics(metricsId, userId, updateData) up to its first
\* await
CallUpdateBodyMetrics(p, userId, m, updateData) ==
    /\ Idle(p)
    /\ procs' = [procs EXCEPT ![p] =
          [NewCall("updateBodyMetrics", userId, 0, NoPatch, "mfind") EXCEPT
              !.metric = m, !.sample = updateData]]
    /\ UNCHANGED <<clock, storeVars, faults, schedVars>>

\* ProgressService.deleteBodyMetrics(metricsId, userId) up to its first await
CallDeleteBodyMetrics(p, userId, m) ==
    /\ Idle(p)
    /\ procs' = [procs EXCEPT ![p] =
          [NewCall("deleteBodyMetrics", userId, 0, NoPatch, "mfind") EXCEPT !.metric = m]]
    /\ UNCHANGED <<clock, storeVars, faults, schedVars>>

\* createBodyMetrics: metricsRef.set(metrics) on a new document, whose
\* auto-generated id is no stored document's and no call's
StepMetricSet(p) ==
    LET pr == procs[p]
        ms == metrics[pr.user]
        k == IF pr.i > Len(ms) THEN Len(ms) + 1 ELSE pr.i
        fresh == {m \in MetricIds : /\ MetricPlaces(m) = {}
                                    /\ \A q \in ProcIds : procs[q].metric # m}
    IN  /\ Running(p) /\ pr.pc = "mset"
        /\ Len(ms) < MaxSamples
        /\ \E m \in fresh :
              /\ metrics' = [metrics EXCEPT ![pr.user] =
                                InsertAt(ms, k, [pr.sample EXCEPT !.id = m])]
              /\ procs' = [procs EXCEPT ![p] = Finish([pr EXCEPT !.metric = m], NoDoc)]
        /\ UNCHANGED <<clock, planVars, goals, nextGoal, prs, workouts, workoutDocs, jobLogs, faults,
                       schedVars>>

\* findBodyMetricsById(metricsId) and the ownership check of the service
StepMetricFind(p) ==
    LET pr == procs[p]
        at == MetricPlaces(pr.metric)
    IN  /\ Running(p) /\ pr.pc = "mfind"
        /\ procs' = [procs EXCEPT ![p] =
              IF at = {} THEN Threw(pr, "NotFound")
              ELSE IF \A pl \in at : pl[1] # pr.user THEN Threw(pr, "Authorization")
              ELSE [pr EXCEPT !.pc = "mget"]]
        /\ UNCHANGED <<clock, storeVars, faults, schedVars>>

\* metricsRef.get() of updateBodyMetrics and deleteBodyMetrics
StepMetricGet(p) ==
    LET pr == procs[p]
    IN  /\ Running(p) /\ pr.pc = "mget"
        /\ procs' = [procs EXCEPT ![p] =
              IF MetricPlaces(pr.metric) = {} THEN Threw(pr, "NotFound")
              ELSE [pr EXCEPT !.pc = IF pr.op = "deleteBodyMetrics" THEN "mdelete"
                                     ELSE "mwrite"]]
        /\ UNCHANGED <<clock, storeVars, faults, schedVars>>

\* metricsRef.update(updates): the defined fields overwrite the document's; rejected
\* by the store when the document is missing
StepMetricWrite(p) ==
    LET pr == procs[p]
        at == MetricPlaces(pr.metric)
        merged(s) == [s EXCEPT
                         !.weight = IF pr.sample.weight # Undef THEN pr.sample.weight ELSE @,
                         !.bodyFat = IF pr.sample.bodyFat # Undef THEN pr.sample.bodyFat
                                     ELSE @]
    IN  /\ Running(p) /\ pr.pc = "mwrite"
        /\ IF at = {}
           THEN /\ procs' = [procs EXCEPT ![p] = Threw(pr, "NoDocumentToUpdate")]
                /\ UNCHANGED metrics
           ELSE /\ metrics' = [u \in Users |->
                                 [k \in 1..Len(metrics[u]) |->
                                    IF <<u, k>> \in at THEN merged(metrics[u][k])
                                    ELSE metrics[u][k]]]
                /\ procs' = [procs EXCEPT ![p] = [pr EXCEPT !.pc = "mreread"]]
        /\ UNCHANGED <<clock, planVars, goals, nextGoal, prs, workouts, workoutDocs, jobLogs, faults,
                       schedVars>>

\* return this.findBodyMetricsById(metricsId)
StepMetricReread(p) ==
    LET pr == procs[p]
    IN  /\ Running(p) /\ pr.pc = "mreread"
        /\ procs' = [procs EXCEPT ![p] =
              IF MetricPlaces(pr.metric) = {} THEN Threw(pr, "NotFound")
              ELSE Finish(pr, NoDoc)]
        /\ UNCHANGED <<clock, storeVars, faults, schedVars>>

\* metricsRef.delete(): succeeds whether or not the document is there
StepMetricDelete(p) ==
    LET pr == procs[p]
        at == MetricPlaces(pr.metric)
    IN  /\ Running(p) /\ pr.pc = "mdelete"
        /\ metrics' = [u \in Users |->
                          IF \E k \in 1..Len(metrics[u]) : <<u, k>> \in at
                          THEN RemoveAt(metrics[u],
                                        CHOOSE k \in 1..Len(metrics[u]) : <<u, k>> \in at)
                          ELSE metrics[u]]
        /\ procs' = [procs EXCEPT ![p] = Finish(pr, NoDoc)]
        /\ UNCHANGED <<clock, planVars, goals, nextGoal, prs, workouts, workoutDocs, jobLogs, faults,
                       schedVars>>

(***************************************************************************)
(* Goal repository: update and updateProgress are a read, a write and a    *)
(* read again, with no transaction around them                             *)
(***************************************************************************)
\* goalRef.get(): NotFoundError when the document is missing
StepGet(p) ==
    LET pr == procs[p]
        doc == goals[pr.rgoal]
    IN  /\ Running(p) /\ pr.pc = "get"
        /\ procs' = [procs EXCEPT ![p] =
              IF doc.id = 0 THEN Raise(pr, "NotFound")
              ELSE [pr EXCEPT !.pc = "write",
                              !.updates = IF pr.rfn = "update"
                                          THEN UpdateMap(pr.updates, doc) ELSE @]]
        /\ UNCHANGED <<clock, storeVars, faults, schedVars>>

\* goalRef.update(updates): rejected by the store when the document is missing
StepWrite(p) ==
    LET pr == procs[p]
        doc == goals[pr.rgoal]
        new == Merge(doc, pr.updates)
    IN  /\ Running(p) /\ pr.pc = "write"
        /\ IF doc.id = 0
           THEN /\ procs' = [procs EXCEPT ![p] = Raise(pr, "NoDocumentToUpdate")]
                /\ UNCHANGED goals
           ELSE /\ goals' = [goals EXCEPT ![pr.rgoal] = new]
                /\ procs' = [procs EXCEPT ![p] =
                      [pr EXCEPT !.pc = "reread",
                                 !.wrote = IF new.status # doc.status
                                           THEN @ \cup {pr.rgoal} ELSE @]]
        /\ UNCHANGED <<clock, planVars, nextGoal, metrics, prs, workouts, workoutDocs, jobLogs, faults, schedVars>>

\* return this.findById(goalId)
StepReread(p) ==
    LET pr == procs[p]
        doc == goals[pr.rgoal]
    IN  /\ Running(p) /\ pr.pc = "reread"
        /\ procs' = [procs EXCEPT ![p] =
              IF doc.id = 0 THEN Raise(pr, "NotFound") ELSE Returned(pr, doc)]
        /\ UNCHANGED <<clock, storeVars, faults, schedVars>>

(***************************************************************************)
(* Sweeps and jobs                                                         *)
(***************************************************************************)
\* the bulk load of checkExpiredGoals, ExpireGoalsJob and UpdateGoalProgressJob
StepLoad(p) ==
    LET pr == procs[p]
        snap == IF pr.op = "checkExpiredGoals" THEN FindActiveByUser(pr.user)
                ELSE FindAllActiveGoals
        loaded == [pr EXCEPT !.snap = snap, !.i = 1, !.now = clock, !.before = goals]
    IN  /\ Running(p) /\ pr.pc = "load"
        /\ procs' = [procs EXCEPT ![p] =
              IF pr.op = "executeJob" /\ pr.job = "update-goal-progress"
              THEN ProgressLoop(loaded) ELSE ExpireLoop(loaded)]
        /\ UNCHANGED <<clock, storeVars, faults, schedVars>>

\* the switch of executeJob: the job's execute() up to its first await (the goal
\* jobs load, the cleanup computes its cutoff and queries), or the failure result
\* of an unknown name, which goes straight to the audit log
DispatchJob(call, jobName) ==
    CASE jobName \in {"expire-goals", "update-goal-progress"} ->
            [call EXCEPT !.pc = "load"]
      [] jobName = "cleanup-old-logs" ->
            [call EXCEPT !.pc = "query", !.now = clock - RetentionDays]
      [] OTHER ->
            [call EXCEPT !.pc = "log", !.logAt = clock,
                         !.result = JobResult(jobName, "failure", clock, clock,
                                              Undef, "Job not found")]

\* JobScheduler.executeJob(jobName), fired by the recurring trigger ("cron") or
\* requested through the job controller ("manual"), up to its first await
CallExecuteJob(p, jobName, trig) ==
    LET call == [IdleProc EXCEPT !.op = "executeJob", !.job = jobName, !.trig = trig,
                                 !.startTime = clock, !.outcome = "running"]
    IN  /\ Idle(p)
        /\ procs' = [procs EXCEPT ![p] = DispatchJob(call, jobName)]
        /\ UNCHANGED <<clock, storeVars, faults, schedVars>>

\* CleanupOldLogsJob: the query for the logs created before the cutoff
StepQuery(p) ==
    LET pr == procs[p]
        old == {l \in jobLogs : l.createdAt < pr.now}
    IN  /\ Running(p) /\ pr.pc = "query"
        /\ procs' = [procs EXCEPT ![p] =
              IF old = {} THEN JobDone(pr, "success", 0, "none")
              ELSE [pr EXCEPT !.pc = "commit", !.batch = old, !.count = Cardinality(old)]]
        /\ UNCHANGED <<clock, storeVars, faults, schedVars>>

\* CleanupOldLogsJob: batch.commit() of one batch holding every delete. Whether the
\* store rejects a batch above the limit the job's comment names depends on the
\* Firestore backend the build runs against: either outcome may happen
StepCommit(p) ==
    LET pr == procs[p]
    IN  /\ Running(p) /\ pr.pc = "commit"
        /\ \/ /\ pr.count > BatchLimit
              /\ procs' = [procs EXCEPT ![p] = Raise(pr, "BatchTooLarge")]
              /\ UNCHANGED jobLogs
           \/ /\ jobLogs' = jobLogs \ pr.batch
              /\ procs' = [procs EXCEPT ![p] = JobDone(pr, "success", pr.count, "none")]
        /\ UNCHANGED <<clock, planVars, goals, nextGoal, metrics, prs, workouts, workoutDocs, faults, schedVars>>

\* JobLogRepository.logJobExecution(result): logRef.set of the document built when
\* the call was entered; then executeJob returns the result
StepLog(p) ==
    LET pr == procs[p]
        r == pr.result
        items == IF r.itemsProcessed = Undef THEN 0 ELSE r.itemsProcessed
    IN  /\ Running(p) /\ pr.pc = "log"
        /\ jobLogs' = jobLogs \cup
              {[id |-> p, jobName |-> r.jobName, status |-> r.status,
                itemsProcessed |-> items, error |-> r.error, createdAt |-> pr.logAt]}
        /\ procs' = [procs EXCEPT ![p] = [Finish(pr, NoDoc) EXCEPT !.logged = @ + 1]]
        /\ UNCHANGED <<clock, planVars, goals, nextGoal, metrics, prs, workouts, workoutDocs, faults, schedVars>>

(***************************************************************************)
(* Job scheduler: the trigger table and the cron tasks                     *)
(***************************************************************************)
NoCall == [op |-> "none", name |-> "none", ret |-> FALSE]

\* new JobScheduler(): no job is scheduled and no task exists
SchedulerConstructed ==
    /\ scheduledJobs = [n \in JobNames |-> 0]
    /\ cronTasks = <<>>
    /\ lastCall = NoCall

(***************************************************************************)
(* Specification of the goal lifecycle: goals are created, and the owner's *)
(* calls, the manual recheck and the two goal jobs run interleaved, one    *)
(* call per process, with a store that does not fail                       *)
(***************************************************************************)
Bench == "bench-press"

\* the personal record the strength goals are measured against
BenchRecord(userId, weight, reps) ==
    [id |-> 1, userId |-> userId, exerciseId |-> Bench, weight |-> weight,
     reps |-> reps, achievedAt |-> 0, workoutProgressId |-> Undef,
     createdAt |-> 0, updatedAt |-> 0]

StrengthDto(deadline) ==
    Dto("strength", Undef, Undef,
        [exerciseId |-> Bench, targetWeight |-> 2, targetReps |-> 1], NoFreq, Undef, deadline)
WeightDto(deadline) == Dto("weight", 3, Undef, NoTarget, NoFreq, 1, deadline)

LifecycleDtos ==
    {StrengthDto(NearDeadline), WeightDto(FarDeadline),
     Dto("weight", 3, Undef, NoTarget, NoFreq, Undef, FarDeadline)}

\* the goals a behaviour may start with
LifecycleDocs(g) ==
    {NoDoc, GoalDoc(g, "u1", StrengthDto(NearDeadline)),
     GoalDoc(g, "u1", WeightDto(FarDeadline))}
LifecyclePatches ==
    {StatusPatch(st) : st \in GoalStatus}
        \cup {TargetWeightPatch(2),
              StrengthTargetPatch([exerciseId |-> Bench, targetWeight |-> 1,
                                   targetReps |-> 1])}

Init ==
    /\ clock = 0
    /\ goals \in [GoalIds -> UNION {LifecycleDocs(g) : g \in GoalIds}]
    /\ \A g \in GoalIds : goals[g] \in LifecycleDocs(g)
    /\ nextGoal = 1
    /\ metrics = [u \in Users |->
                    IF u = "u1" THEN <<[id |-> 1, weight |-> 2, bodyFat |-> Undef]>>
                    ELSE <<>>]
    /\ prs = {BenchRecord("u1", 2, 1)}
    /\ workouts = {}
    /\ workoutDocs = [w \in WorkoutIds |-> NoDoc]
    /\ jobLogs = {}
    /\ procs = [p \in ProcIds |-> IdleProc]
    /\ PlansEmpty
    /\ faults = 0
    /\ SchedulerConstructed

\* processes are taken in order
FreeProcs == {p \in ProcIds : Idle(p) /\ \A q \in ProcIds : q < p => ~Idle(q)}

Next ==
    \/ Tick
    \/ \E p \in FreeProcs, dto \in LifecycleDtos : CallCreateGoal(p, "u1", dto)
    \/ \E p \in FreeProcs, g \in GoalIds : CallDeleteGoal(p, "u1", g)
    \/ \E p \in FreeProcs, k \in {1, 2} :
          CallLogBodyMetrics(p, "u1", [NoSample EXCEPT !.weight = 3], k)
    \/ \E p \in FreeProcs : CallUpdateBodyMetrics(p, "u1", 1, [NoSample EXCEPT !.weight = 1])
    \/ \E p \in FreeProcs : CallDeleteBodyMetrics(p, "u1", 1)
    \/ \E p \in FreeProcs, g \in GoalIds : CallCompleteGoal(p, "u1", g)
    \/ \E p \in FreeProcs, g \in GoalIds : CallAbandonGoal(p, "u1", g)
    \/ \E p \in FreeProcs, g \in GoalIds, u \in LifecyclePatches : CallUpdateGoal(p, "u1", g, u)
    \/ \E p \in FreeProcs, g \in GoalIds : CallUpdateGoalProgress(p, "u1", g)
    \/ \E p \in FreeProcs : CallCheckExpiredGoals(p, "u1")
    \/ \E p \in FreeProcs, j \in {"expire-goals", "update-goal-progress"} : CallExecuteJob(p, j, "cron")
    \/ \E p \in ProcIds : StepCreateMetrics(p)
    \/ \E p \in ProcIds : StepCreateSet(p)
    \/ \E p \in ProcIds : StepDeleteFind(p)
    \/ \E p \in ProcIds : StepDeleteGet(p)
    \/ \E p \in ProcIds : StepDeleteDoc(p)
    \/ \E p \in ProcIds : StepMetricSet(p)
    \/ \E p \in ProcIds : StepMetricFind(p)
    \/ \E p \in ProcIds : StepMetricGet(p)
    \/ \E p \in ProcIds : StepMetricWrite(p)
    \/ \E p \in ProcIds : StepMetricReread(p)
    \/ \E p \in ProcIds : StepMetricDelete(p)
    \/ \E p \in ProcIds : StepFind(p)
    \/ \E p \in ProcIds : StepRead(p)
    \/ \E p \in ProcIds : StepLoad(p)
    \/ \E p \in ProcIds : StepGet(p)
    \/ \E p \in ProcIds : StepWrite(p)
    \/ \E p \in ProcIds : StepReread(p)
    \/ \E p \in ProcIds : StepLog(p)

Spec == Init /\ [][Next]_vars

(***************************************************************************)
(* Goal lifecycle (Spec)                                                   *)
(***************************************************************************)
Sweeping(pr) ==
    \/ pr.op = "checkExpiredGoals"
    \/ pr.op = "executeJob" /\ pr.job = "expire-goals"

\* C1: once the status of a goal is completed, abandoned or expired, no step of any
\* operation changes that status again (the goal may only be deleted).
C1_TerminalStatusIsFinal ==
    [][\A g \in GoalIds :
          (Exists(g) /\ goals[g].status \in TerminalStatus /\ goals'[g].id # 0)
              => goals'[g].status = goals[g].status]_vars

\* C2: in every reachable state, for every stored goal, completedAt is set if and
\* only if its status is completed.
C2_CompletedAtIffCompleted ==
    \A g \in GoalIds :
        Exists(g) => ((goals[g].completedAt # Undef) <=> (goals[g].status = "completed"))

\* C3: completedAt is set exactly once per goal: once it is stored, no later or
\* interleaved completion request overwrites it with another value.
C3_CompletedAtSetOnce ==
    [][\A g \in GoalIds :
          (Exists(g) /\ goals[g].completedAt # Undef /\ goals'[g].id # 0)
              => goals'[g].completedAt = goals[g].completedAt]_vars

\* C5: a sweep (expire-goals or checkExpiredGoals) writes expired to a goal only if,
\* at the moment of that write, the goal's status is active and deadline < now.
C5_ExpiryOnlyWhenActiveAtWrite ==
    [][\A p \in ProcIds :
          (/\ Sweeping(procs[p]) /\ procs[p].pc = "write" /\ procs'[p].pc = "reread"
           /\ goals'[procs[p].rgoal].status = "expired")
              => (/\ goals[procs[p].rgoal].status = "active"
                  /\ goals[procs[p].rgoal].deadline < clock)]_vars

(***************************************************************************)
(* Specification of a single sweep: the store holds goals of every status, *)
(* owner and deadline; expire-goals runs once, or checkExpiredGoals        *)
(* rechecks once, while time passes, and nothing else writes               *)
(***************************************************************************)
StoredGoal(g, userId, deadline, status) ==
    [GoalDoc(g, userId, WeightDto(deadline)) EXCEPT
        !.status = status,
        !.completedAt = IF status = "completed" THEN 0 ELSE Undef]

SweepDocs(g) ==
    {NoDoc} \cup {StoredGoal(g, u, d, st) :
                    u \in Users, d \in {NearDeadline, FarDeadline}, st \in GoalStatus}
           \cup {CreatedAt(StoredGoal(g, u, NearDeadline, "active"), 0 - 2) : u \in Users}

InitSweep ==
    /\ clock = 0
    /\ goals \in [GoalIds -> UNION {SweepDocs(g) : g \in GoalIds}]
    /\ \A g \in GoalIds : goals[g] \in SweepDocs(g)
    /\ nextGoal = NumGoals + 1
    /\ metrics = [u \in Users |-> <<>>]
    /\ prs = {}
    /\ workouts = {}
    /\ workoutDocs = [w \in WorkoutIds |-> NoDoc]
    /\ jobLogs = {}
    /\ procs = [p \in ProcIds |-> IdleProc]
    /\ PlansEmpty
    /\ faults = 0
    /\ SchedulerConstructed

\* the process of the single call of a behaviour
SoloProcs == IF \E q \in ProcIds : ~Idle(q) THEN {} ELSE FreeProcs

NextSweep ==
    \/ Tick
    \/ \E p \in SoloProcs, u \in Users : CallCheckExpiredGoals(p, u)
    \/ \E p \in SoloProcs, t \in {"cron", "manual"} : CallExecuteJob(p, "expire-goals", t)
    \/ \E p \in ProcIds : StepLoad(p)
    \/ \E p \in ProcIds : StepGet(p)
    \/ \E p \in ProcIds : StepWrite(p)
    \/ \E p \in ProcIds : StepReread(p)
    \/ \E p \in ProcIds : StepLog(p)

SpecSweep == InitSweep /\ [][NextSweep]_vars

\* the latest call
Latest(p) == ~Idle(p) /\ \A q \in ProcIds : q > p => Idle(q)

\* the goals a sweep has to expire: those stored active with deadline < now when
\* it loaded them (the manual recheck: those of its user)
Due(pr) ==
    {g \in GoalIds :
        /\ pr.before[g].id # 0
        /\ pr.before[g].status = "active"
        /\ pr.before[g].deadline < pr.now
        /\ pr.op = "checkExpiredGoals" => pr.before[g].userId = pr.user}

\* C4: a sweep with no concurrent writer turns exactly the goals that were active
\* with deadline < now into expired and leaves every other goal as it was, completed
\* goals included; expire-goals reports success with itemsProcessed the number of
\* goals it transitioned, and checkExpiredGoals returns exactly those goals.
C4_SweepExpiresExactlyDueGoals ==
    \A p \in ProcIds :
        (Latest(p) /\ Sweeping(procs[p]) /\ procs[p].outcome = "returned") =>
            LET pr == procs[p]
            IN  /\ \A g \in GoalIds :
                      goals[g] = IF g \in Due(pr)
                                 THEN [pr.before[g] EXCEPT !.status = "expired"]
                                 ELSE pr.before[g]
                /\ pr.wrote = Due(pr)
                /\ pr.op = "executeJob" =>
                      /\ pr.result.status = "success"
                      /\ pr.result.itemsProcessed = Cardinality(Due(pr))
                /\ pr.op = "checkExpiredGoals" =>
                      /\ Len(pr.acc) = Cardinality(Due(pr))
                      /\ {pr.acc[k].id : k \in 1..Len(pr.acc)} = Due(pr)
                      /\ \A k \in 1..Len(pr.acc) : pr.acc[k] = goals[pr.acc[k].id]

\* C4 witness: expire-goals has run over a store holding a goal past its deadline
\* that it expired and a completed goal past its deadline that it left alone
C4_Witness ==
    \E p \in ProcIds, g, h \in GoalIds :
        /\ procs[p].op = "executeJob" /\ procs[p].outcome = "returned"
        /\ g \in procs[p].wrote /\ goals[g].status = "expired"
        /\ goals[h].id # 0 /\ goals[h].status = "completed"
        /\ goals[h].deadline < procs[p].now

(***************************************************************************)
(* Specification of a job execution: over a store of active goals of       *)
(* several types and an audit log with an old and a recent entry, one      *)
(* executeJob call runs (any job name, either trigger) while time passes,  *)
(* owners delete goals and the store fails up to MaxFaults times           *)
(***************************************************************************)
WeeklyDto(deadline) ==
    Dto("workout_frequency", Undef, Undef, NoTarget,
        [workoutsPerWeek |-> 2, workoutsPerMonth |-> Undef], Undef, deadline)
CustomDto(deadline) == Dto("custom", Undef, Undef, NoTarget, NoFreq, Undef, deadline)

JobDocs(g) ==
    {NoDoc,
     GoalDoc(g, "u1", StrengthDto(NearDeadline)),
     GoalDoc(g, "u2", WeeklyDto(FarDeadline)),
     GoalDoc(g, "u2", CustomDto(NearDeadline))}

SeedLog(id, createdAt) ==
    [id |-> id, jobName |-> "expire-goals", status |-> "success", itemsProcessed |-> 0,
     error |-> "none", createdAt |-> createdAt]

InitJobs ==
    /\ clock = 0
    /\ goals \in [GoalIds -> UNION {JobDocs(g) : g \in GoalIds}]
    /\ \A g \in GoalIds : goals[g] \in JobDocs(g)
    /\ nextGoal = NumGoals + 1
    /\ metrics = [u \in Users |->
                    IF u = "u1" THEN <<[id |-> 1, weight |-> 2, bodyFat |-> Undef]>>
                    ELSE <<>>]
    /\ prs = {BenchRecord("u1", 2, 1)}
    /\ workouts = {[id |-> 1, userId |-> "u2", completedAt |-> 0]}
    /\ workoutDocs = [w \in WorkoutIds |-> NoDoc]
    /\ jobLogs = {SeedLog(0, 0 - RetentionDays - 10), SeedLog(-1, 0 - 1)}
    /\ procs = [p \in ProcIds |-> IdleProc]
    /\ PlansEmpty
    /\ faults = MaxFaults
    /\ SchedulerConstructed

\* the process of the single job run of a behaviour
JobProcs == IF \E q \in ProcIds : procs[q].op = "executeJob" THEN {} ELSE FreeProcs

\* the process of the single deleteGoal call of a behaviour, made while the job
\* run is in flight (a delete before the run is an initial state without the goal)
DeleteProcs ==
    IF \/ \E q \in ProcIds : procs[q].op = "deleteGoal"
       \/ ~\E q \in ProcIds : procs[q].op = "executeJob" /\ Running(q)
    THEN {} ELSE FreeProcs

NextJobs ==
    \/ Tick
    \/ \E p \in DeleteProcs, g \in GoalIds :
          Exists(g) /\ CallDeleteGoal(p, goals[g].userId, g)
    \/ \E p \in JobProcs, j \in JobNames \cup {UnknownJob}, t \in {"cron", "manual"} :
          CallExecuteJob(p, j, t)
    \/ \E p \in ProcIds : StepDeleteFind(p)
    \/ \E p \in ProcIds : StepDeleteGet(p)
    \/ \E p \in ProcIds : StepDeleteDoc(p)
    \/ \E p \in ProcIds : StepLoad(p)
    \/ \E p \in ProcIds : StepRead(p)
    \/ \E p \in ProcIds : StepGet(p)
    \/ \E p \in ProcIds : StepWrite(p)
    \/ \E p \in ProcIds : StepReread(p)
    \/ \E p \in ProcIds : StepQuery(p)
    \/ \E p \in ProcIds : StepCommit(p)
    \/ \E p \in ProcIds : StepLog(p)
    \/ \E p \in ProcIds : procs[p].op = "executeJob" /\ StoreFault(p)

SpecJobs == InitJobs /\ [][NextJobs]_vars

\* the unit of work of the job run by process frame pr has ended
UnitEnded(pr, jobName) ==
    pr.op = "executeJob" /\ pr.job = jobName /\ pr.pc \in {"log", "done"}
        /\ pr.result.status # "none"

\* the goals of a snapshot that were past their deadline when it was loaded
DueInSnap(pr) ==
    {pr.snap[k].id : k \in {j \in 1..Len(pr.snap) : pr.snap[j].deadline < pr.now}}

\* C6: in expire-goals a failure updating one goal does not abort the sweep: every
\* other loaded goal past its deadline is still transitioned by the run, and the
\* result's itemsProcessed is the number of goals the run transitioned.
C6_ExpireSweepIsolatesFailures ==
    \A p \in ProcIds :
        (UnitEnded(procs[p], "expire-goals") /\ ~procs[p].topError) =>
            /\ DueInSnap(procs[p]) \ procs[p].failed \subseteq procs[p].wrote
            /\ procs[p].result.itemsProcessed = Cardinality(procs[p].wrote)

\* the loaded goals whose type the scheduled refresh handles
Refreshable(pr) ==
    {pr.snap[k].id : k \in {j \in 1..Len(pr.snap) : pr.snap[j].type # "custom"}}

\* the stored goal shows the scheduled refresh of its loaded snapshot g
ShowsRefresh(g) ==
    LET doc == goals[g.id]
        u == JobWeightUpdate(g, metrics[g.userId])
    IN  CASE g.type \in {"weight", "body_fat"} ->
                u # NoPatch => /\ doc.currentValue = u.currentValue
                               /\ doc.currentProgress = u.currentProgress
          [] g.type = "strength" ->
                \A r \in ExercisePRs(g.userId, g.strengthTarget.exerciseId) :
                    r # NoPR => IF TargetMet(g, r) THEN doc.status = "completed"
                                ELSE doc.currentProgress = StrengthPct(g, r)
          [] g.type = "workout_frequency" ->
                \E now \in 0..MaxTime : doc.currentProgress = FrequencyPct(g, now)
          [] OTHER -> TRUE

\* C7: in update-goal-progress an exception raised while one goal is processed is
\* caught and skipped: every other loaded goal is still processed (and, while it
\* stays stored, shows its refresh), and the job reports success with an
\* itemsProcessed that counts the processed goals and not the failed one.
C7_ProgressJobIsolatesFailures ==
    \A p \in ProcIds :
        (UnitEnded(procs[p], "update-goal-progress") /\ ~procs[p].topError) =>
            LET pr == procs[p]
            IN  /\ pr.result.status = "success"
                /\ pr.handled \cap pr.failed = {}
                /\ pr.handled \cup pr.failed = Refreshable(pr)
                /\ pr.result.itemsProcessed = Cardinality(pr.handled)
                /\ \A k \in 1..Len(pr.snap) :
                      (pr.snap[k].id \in pr.handled /\ Exists(pr.snap[k].id))
                          => ShowsRefresh(pr.snap[k])

\* C7 witness: a run in which the refresh of one goal threw and a goal loaded after
\* it was processed, reporting success with itemsProcessed = 1
C7_Witness ==
    \E p \in ProcIds :
        /\ UnitEnded(procs[p], "update-goal-progress")
        /\ procs[p].outcome = "returned"
        /\ Len(procs[p].snap) = 2
        /\ procs[p].snap[1].id \in procs[p].failed
        /\ procs[p].snap[2].id \in procs[p].handled
        /\ procs[p].result.status = "success"
        /\ procs[p].result.itemsProcessed = 1

\* C8: for each of the three jobs the result has status failure only if the
\* top-level operation itself threw (the bulk load, the query, the commit), with
\* itemsProcessed = 0 and the error set; in every other case, per-item failures
\* included, the result has status success.
C8_FailureOnlyWhenTopLevelThrew ==
    \A p \in ProcIds : \A j \in JobNames :
        UnitEnded(procs[p], j) =>
            LET r == procs[p].result
            IN  /\ r.status \in {"success", "failure"}
                /\ r.status = "failure" <=> procs[p].topError
                /\ r.status = "failure" => (r.itemsProcessed = 0 /\ r.error # "none")

Invoked(pr) == pr.op = "executeJob"
AuditEntries(p) == {l \in jobLogs : l.id = p}

\* what holds of the audit log: an invocation appends at most one record, none
\* before its append, and one carrying its result once it has returned; the
\* invocation whose append the store rejects throws and leaves none
AuditedUnlessAppendRejected ==
    \A p \in ProcIds :
        Invoked(procs[p]) =>
            LET pr == procs[p]
            IN  /\ pr.logged <= 1
                /\ Cardinality(AuditEntries(p)) = pr.logged
                /\ pr.outcome = "running" => pr.logged = 0
                /\ pr.outcome = "returned" =>
                      /\ pr.logged = 1
                      /\ \A l \in AuditEntries(p) :
                            /\ l.jobName = pr.job
                            /\ l.status = pr.result.status
                            /\ l.error = pr.result.error
                /\ pr.outcome = "threw" => (pr.logged = 0 /\ pr.err = "StoreError")

\* C9: every invocation of executeJob, by the recurring trigger or manual, for a
\* known job, an unknown name or a job whose unit of work fails, appends exactly
\* one JobResult to the audit log: an invocation that is over, returned or thrown,
\* has one record in the log, never zero and never two, and no invocation has more
\* than one at any time.
C9_ExactlyOneAuditRecord ==
    \A p \in ProcIds :
        Invoked(procs[p]) =>
            /\ Cardinality(AuditEntries(p)) <= 1
            /\ procs[p].outcome \in {"returned", "threw"} =>
                  Cardinality(AuditEntries(p)) = 1

\* C10: executeJob never throws to its caller: an unknown job name and a run that
\* fails, a store failure at any step included, end in a returned JobResult with
\* status failure and the error set.
C10_ExecuteJobNeverThrows ==
    \A p \in ProcIds :
        Invoked(procs[p]) =>
            /\ procs[p].outcome # "threw"
            /\ (procs[p].outcome = "returned" /\ procs[p].job = UnknownJob) =>
                  /\ procs[p].result.status = "failure"
                  /\ procs[p].result.error # "none"

(***************************************************************************)
(* Job scheduler: startAll, stopAll, stopJob, startJob and the recurring   *)
(* triggers.  The operations are synchronous, so each is one step.         *)
(***************************************************************************)
MaxTasks == 6

\* JobScheduler.jobConfigs, in order; every definition is enabled
JobConfigs == <<"expire-goals", "update-goal-progress", "cleanup-old-logs">>

TaskIds == 1..Len(cronTasks)

\* the live recurring triggers of job name n: the tasks created for it, not stopped
Live(n) == {t \in TaskIds : cronTasks[t].name = n /\ cronTasks[t].running}

\* scheduleJob(config): cron.schedule creates a running task bound to
\* executeJob(config.name), and scheduledJobs.set(config.name, task) replaces
\* whatever entry the name had
ScheduleJob(s, name) ==
    [tasks |-> Append(s.tasks, [name |-> name, running |-> TRUE]),
     map |-> [s.map EXCEPT ![name] = Len(s.tasks) + 1]]

RECURSIVE ScheduleFrom(_, _)
\* jobConfigs.forEach(config => if (config.enabled) scheduleJob(config)), from index k
ScheduleFrom(s, k) ==
    IF k > Len(JobConfigs) THEN s
    ELSE ScheduleFrom(ScheduleJob(s, JobConfigs[k]), k + 1)

\* task.stop() on the tasks of the set ts
StopTasks(ts) ==
    [t \in TaskIds |-> IF t \in ts THEN [cronTasks[t] EXCEPT !.running = FALSE]
                       ELSE cronTasks[t]]

StartAll ==
    LET s == ScheduleFrom([tasks |-> cronTasks, map |-> scheduledJobs], 1)
    IN  /\ Len(cronTasks) + Len(JobConfigs) <= MaxTasks
        /\ cronTasks' = s.tasks
        /\ scheduledJobs' = s.map
        /\ lastCall' = [op |-> "startAll", name |-> "none", ret |-> TRUE]
        /\ UNCHANGED <<clock, storeVars, procs, faults>>

StopAll ==
    /\ cronTasks' = StopTasks({scheduledJobs[n] : n \in JobNames})
    /\ scheduledJobs' = [n \in JobNames |-> 0]
    /\ lastCall' = [op |-> "stopAll", name |-> "none", ret |-> TRUE]
    /\ UNCHANGED <<clock, storeVars, procs, faults>>

StopJob(jobName) ==
    LET task == IF jobName \in JobNames THEN scheduledJobs[jobName] ELSE 0
    IN  /\ IF task # 0
           THEN /\ cronTasks' = StopTasks({task})
                /\ scheduledJobs' = [scheduledJobs EXCEPT ![jobName] = 0]
           ELSE UNCHANGED <<cronTasks, scheduledJobs>>
        /\ lastCall' = [op |-> "stopJob", name |-> jobName, ret |-> task # 0]
        /\ UNCHANGED <<clock, storeVars, procs, faults>>

StartJob(jobName) ==
    LET start == jobName \in JobNames /\ scheduledJobs[jobName] = 0
        s == ScheduleJob([tasks |-> cronTasks, map |-> scheduledJobs], jobName)
    IN  /\ start => Len(cronTasks) < MaxTasks
        /\ IF start
           THEN cronTasks' = s.tasks /\ scheduledJobs' = s.map
           ELSE UNCHANGED <<cronTasks, scheduledJobs>>
        /\ lastCall' = [op |-> "startJob", name |-> jobName, ret |-> start]
        /\ UNCHANGED <<clock, storeVars, procs, faults>>

\* a running task fires: its callback awaits executeJob(config.name)
CronFire(p, t) ==
    /\ cronTasks[t].running
    /\ CallExecuteJob(p, cronTasks[t].name, "cron")

(***************************************************************************)
(* Specification of the scheduler: any sequence of startAll, stopAll,      *)
(* stopJob and startJob calls, with one job execution, fired by a trigger  *)
(* or requested manually, over a store with no goals and no logs           *)
(***************************************************************************)
InitSched ==
    /\ clock = 0
    /\ goals = [g \in GoalIds |-> NoDoc]
    /\ nextGoal = 1
    /\ metrics = [u \in Users |-> <<>>]
    /\ prs = {}
    /\ workouts = {}
    /\ workoutDocs = [w \in WorkoutIds |-> NoDoc]
    /\ jobLogs = {}
    /\ procs = [p \in ProcIds |-> IdleProc]
    /\ PlansEmpty
    /\ faults = 0
    /\ SchedulerConstructed

NextSched ==
    \/ StartAll
    \/ StopAll
    \/ \E n \in JobNames \cup {UnknownJob} : StopJob(n)
    \/ \E n \in JobNames \cup {UnknownJob} : StartJob(n)
    \/ \E p \in SoloProcs, t \in TaskIds : CronFire(p, t)
    \/ \E p \in SoloProcs, n \in JobNames : CallExecuteJob(p, n, "manual")
    \/ \E p \in ProcIds : StepLoad(p)
    \/ \E p \in ProcIds : StepQuery(p)
    \/ \E p \in ProcIds : StepLog(p)

SpecSched == InitSched /\ [][NextSched]_vars

\* C11: after any sequence of startAll, startJob, stopJob and stopAll calls there
\* is at most one live recurring trigger per job name; in particular startAll on an
\* already scheduled job creates no second trigger for it.
C11_AtMostOneTriggerPerJob ==
    \A n \in JobNames : Cardinality(Live(n)) <= 1

\* this step is a recurring trigger firing job n
Fires(n) ==
    \E p \in ProcIds :
        /\ Idle(p)
        /\ procs'[p].op = "executeJob" /\ procs'[p].trig = "cron" /\ procs'[p].job = n

\* C12: once stopAll, or stopJob(n) returning true, has removed n from the trigger
\* table, no recurring trigger fires n until n is started again, whatever start
\* calls preceded the stop; and a stop leaves the executions in flight as they are.
C12_StopCancelsFutureFires ==
    [][/\ \A n \in JobNames : Fires(n) => scheduledJobs[n] # 0
       /\ lastCall' # lastCall /\ lastCall'.op \in {"stopAll", "stopJob"}
             => procs' = procs]_vars

\* this step is a call of op (stopJob or startJob) on job name n
Calls(op, n) ==
    /\ lastCall'.op = op /\ lastCall'.name = n
    /\ lastCall' # lastCall \/ cronTasks' # cronTasks \/ scheduledJobs' # scheduledJobs

\* the step leaves the triggers of every job but n as they were
OthersKept(n) ==
    \A m \in JobNames \ {n} : Live(m)' = Live(m) /\ scheduledJobs'[m] = scheduledJobs[m]

\* C13: stopJob(n) returns false and changes nothing when n has no active trigger,
\* startJob(n) returns false and changes nothing when n is unknown or already has
\* one; otherwise the call returns true and n has no, respectively exactly one,
\* active trigger afterwards, the triggers of the other jobs being unchanged.
C13_StartStopOneJob ==
    [][\A n \in JobNames \cup {UnknownJob} :
        LET live == IF n \in JobNames THEN Live(n) ELSE {}
        IN  /\ Calls("stopJob", n) =>
                  IF live = {}
                  THEN ~lastCall'.ret /\ UNCHANGED <<cronTasks, scheduledJobs>>
                  ELSE lastCall'.ret /\ Live(n)' = {} /\ OthersKept(n)
            /\ Calls("startJob", n) =>
                  IF n \notin JobNames \/ live # {}
                  THEN ~lastCall'.ret /\ UNCHANGED <<cronTasks, scheduledJobs>>
                  ELSE lastCall'.ret /\ Cardinality(Live(n)') = 1 /\ OthersKept(n)]_vars

(***************************************************************************)
(* Personal Record Upserter: ProgressRepository.upsertPersonalRecord is a  *)
(* query followed by an update or an insert, with no transaction           *)
(***************************************************************************)
\* the records of a (user, exercise) pair
RecordsOf(userId, exerciseId) ==
    {r \in prs : r.userId = userId /\ r.exerciseId = exerciseId}

\* a comparison that forgets the tie-break on reps
ShouldUpdateWeightOnly(weight, reps, existingData) ==
    weight > existingData.weight

\* a comparison that also replaces a record by an equal performance
ShouldUpdateOrEqual(weight, reps, existingData) ==
    weight > existingData.weight
        \/ (weight = existingData.weight /\ reps >= existingData.reps)

\* shouldUpdate
ShouldUpdate(weight, reps, existingData) ==
    weight > existingData.weight
        \/ (weight = existingData.weight /\ reps > existingData.reps)

RECURSIVE WorkoutLoop(_)
\* upsertPersonalRecord returned rec to its caller
UpsertReturned(pr, rec) ==
    IF pr.op = "upsertPersonalRecord" THEN [Finish(pr, NoDoc) EXCEPT !.rec = rec]
    ELSE [pr EXCEPT !.pc = "prlist", !.rec = rec]

CallUpsertPersonalRecord(p, userId, exerciseId, weight, reps, workoutProgressId) ==
    /\ Idle(p)
    /\ procs' = [procs EXCEPT ![p] =
          [NewCall("upsertPersonalRecord", userId, 0, NoPatch, "prquery") EXCEPT
              !.cand = [exerciseId |-> exerciseId, weight |-> weight, reps |-> reps],
              !.wp = [id |-> workoutProgressId, completedAt |-> Undef],
              !.before = prs]]
    /\ UNCHANGED <<clock, storeVars, faults, schedVars>>

\* the query where userId == .. where exerciseId == .. limit(1): any one of the
\* matching documents; then const now = new Date() and the comparison
StepPRQuery(p) ==
    LET pr == procs[p]
        matching == RecordsOf(pr.user, pr.cand.exerciseId)
    IN  /\ Running(p) /\ pr.pc = "prquery"
        /\ \E existing \in (IF matching = {} THEN {NoPR} ELSE matching) :
             procs' = [procs EXCEPT ![p] =
                IF existing = NoPR
                THEN [pr EXCEPT !.pc = "prset", !.found = NoPR, !.now = clock]
                ELSE IF ShouldUpdate(pr.cand.weight, pr.cand.reps, existing)
                THEN [pr EXCEPT !.pc = "prupdate", !.found = existing, !.now = clock]
                ELSE UpsertReturned([pr EXCEPT !.found = existing, !.now = clock],
                                    existing)]
        /\ UNCHANGED <<clock, storeVars, faults, schedVars>>

\* existingDoc.ref.update({weight, reps, achievedAt, workoutProgressId, updatedAt}):
\* an undefined workoutProgressId is dropped from the update
StepPRUpdate(p) ==
    LET pr == procs[p]
        wpid(old) == IF pr.wp.id # Undef THEN pr.wp.id ELSE old
        write(r) == [r EXCEPT !.weight = pr.cand.weight, !.reps = pr.cand.reps,
                              !.achievedAt = pr.now,
                              !.workoutProgressId = wpid(r.workoutProgressId),
                              !.updatedAt = pr.now]
        returned == [id |-> pr.found.id, userId |-> pr.user,
                     exerciseId |-> pr.cand.exerciseId, weight |-> pr.cand.weight,
                     reps |-> pr.cand.reps, achievedAt |-> pr.now,
                     workoutProgressId |-> pr.wp.id,
                     createdAt |-> pr.found.createdAt, updatedAt |-> pr.now]
    IN  /\ Running(p) /\ pr.pc = "prupdate"
        /\ prs' = {IF r.id = pr.found.id THEN write(r) ELSE r : r \in prs}
        /\ procs' = [procs EXCEPT ![p] =
              UpsertReturned([pr EXCEPT !.changed = @ \cup {pr.i}], returned)]
        /\ UNCHANGED <<clock, planVars, goals, nextGoal, metrics, workouts, workoutDocs, jobLogs,
                       faults, schedVars>>

\* prRef.set(newPR) on a new document of the collection
StepPRSet(p) ==
    LET pr == procs[p]
        newPR == [id |-> Cardinality(prs) + 1, userId |-> pr.user,
                  exerciseId |-> pr.cand.exerciseId, weight |-> pr.cand.weight,
                  reps |-> pr.cand.reps, achievedAt |-> pr.now,
                  workoutProgressId |-> pr.wp.id,
                  createdAt |-> pr.now, updatedAt |-> pr.now]
    IN  /\ Running(p) /\ pr.pc = "prset"
        /\ prs' = prs \cup {newPR}
        /\ procs' = [procs EXCEPT ![p] =
              UpsertReturned([pr EXCEPT !.changed = @ \cup {pr.i}], newPR)]
        /\ UNCHANGED <<clock, planVars, goals, nextGoal, metrics, workouts, workoutDocs, jobLogs,
                       faults, schedVars>>

(***************************************************************************)
(* ProgressService.completeWorkout: the completion is logged, every        *)
(* exercise's representative performance is offered to the upserter, and   *)
(* the workout is marked completed                                         *)
(***************************************************************************)
\* Math.max() of no entries is -Infinity: below every weight
NegInfinity == -1

\* Math.max(...xs)
MaxOf(xs) ==
    IF Len(xs) = 0 THEN NegInfinity
    ELSE CHOOSE m \in {xs[k] : k \in 1..Len(xs)} : \A k \in 1..Len(xs) : xs[k] <= m

\* the last index of x in xs
LastIndexOf(xs, x) ==
    IF \E k \in 1..Len(xs) : xs[k] = x
    THEN CHOOSE k \in 1..Len(xs) : xs[k] = x /\ \A j \in (k + 1)..Len(xs) : xs[j] # x
    ELSE 0

\* xs.indexOf(x), counted from 1; 0 when x is no entry of xs
IndexOf(xs, x) ==
    IF \E k \in 1..Len(xs) : xs[k] = x
    THEN CHOOSE k \in 1..Len(xs) : xs[k] = x /\ \A j \in 1..(k - 1) : xs[j] # x
    ELSE 0

\* xs[k], undefined outside the array
EntryAt(xs, k) == IF k \in 1..Len(xs) THEN xs[k] ELSE Undef

\* maxWeight and repsAtMaxWeight of an exercise of the completion
Candidate(exercise) ==
    [exerciseId |-> exercise.exerciseId,
     weight |-> MaxOf(exercise.actualWeight),
     reps |-> EntryAt(exercise.actualReps,
                      IndexOf(exercise.actualWeight, MaxOf(exercise.actualWeight)))]

\* the loop over progressData.exercises, from index pr.i on: it runs on to the next
\* exercise whose candidate is offered to the upserter, or to the end of the list
WorkoutLoop(pr) ==
    IF pr.i > Len(pr.exs) THEN [pr EXCEPT !.pc = "wget"]
    ELSE LET c == Candidate(pr.exs[pr.i])
         IN  IF c.weight > 0 /\ c.reps > 0
             THEN [pr EXCEPT !.pc = "prquery", !.cand = c,
                             !.upserts = Append(@, [i |-> pr.i, cand |-> c])]
             ELSE WorkoutLoop([pr EXCEPT !.i = @ + 1])

\* a Workout document
WorkoutDoc(id, userId) == [id |-> id, userId |-> userId, status |-> "scheduled"]

CallCompleteWorkout(p, userId, workoutId, exercises) ==
    /\ Idle(p)
    /\ procs' = [procs EXCEPT ![p] =
          [NewCall("completeWorkout", userId, 0, NoPatch, "wfind") EXCEPT
              !.workout = workoutId, !.role = "user", !.wstatus = "completed",
              !.exs = exercises]]
    /\ UNCHANGED <<clock, storeVars, faults, schedVars>>

\* the roles of a caller
Roles == {"user", "trainer", "admin"}

\* WorkoutService.updateWorkout(workoutId, userId, userRole, {status}) up to its
\* first await
CallUpdateWorkout(p, userId, userRole, workoutId, status) ==
    /\ Idle(p)
    /\ procs' = [procs EXCEPT ![p] =
          [NewCall("updateWorkout", userId, 0, NoPatch, "wfind") EXCEPT
              !.workout = workoutId, !.role = userRole, !.wstatus = status]]
    /\ UNCHANGED <<clock, storeVars, faults, schedVars>>

\* WorkoutService.deleteWorkout(workoutId, userId, userRole) up to its first await
CallDeleteWorkout(p, userId, userRole, workoutId) ==
    /\ Idle(p)
    /\ procs' = [procs EXCEPT ![p] =
          [NewCall("deleteWorkout", userId, 0, NoPatch, "wfind") EXCEPT
              !.workout = workoutId, !.role = userRole]]
    /\ UNCHANGED <<clock, storeVars, faults, schedVars>>

\* WorkoutService.createWorkout(userId, workoutData) up to its await
CallCreateWorkout(p, userId) ==
    /\ Idle(p)
    /\ procs' = [procs EXCEPT ![p] = NewCall("createWorkout", userId, 0, NoPatch, "wcset")]
    /\ UNCHANGED <<clock, storeVars, faults, schedVars>>

\* may the caller of pr change the workout doc? completeWorkout: the owner only;
\* updateWorkout: the owner, a trainer, a coach or an admin; deleteWorkout: the owner
\* or an admin
MayTouch(pr, doc) ==
    \/ doc.userId = pr.user
    \/ pr.op = "updateWorkout" /\ pr.role \in {"trainer", "coach", "admin"}
    \/ pr.op = "deleteWorkout" /\ pr.role = "admin"

\* workoutRepository.findById(workoutId) and the permission check of completeWorkout,
\* updateWorkout and deleteWorkout; completeWorkout then enters
\* logWorkoutCompletion, which reads the clock before it awaits the write
StepWFind(p) ==
    LET pr == procs[p]
        doc == workoutDocs[pr.workout]
    IN  /\ Running(p) /\ pr.pc = "wfind"
        /\ procs' = [procs EXCEPT ![p] =
              IF doc.id = 0 THEN Threw(pr, "NotFound")
              ELSE IF ~MayTouch(pr, doc) THEN Threw(pr, "Authorization")
              ELSE CASE pr.op = "updateWorkout" -> [pr EXCEPT !.pc = "wget"]
                     [] pr.op = "deleteWorkout" -> [pr EXCEPT !.pc = "wget"]
                     [] OTHER ->
                          [pr EXCEPT !.pc = "wlog",
                                     !.wp = [id |-> Undef, completedAt |-> clock]]]
        /\ UNCHANGED <<clock, storeVars, faults, schedVars>>

\* progressRepository.logWorkoutCompletion: progressRef.set of the document whose
\* completedAt was read when the call was entered; the loop starts
StepWLog(p) ==
    LET pr == procs[p]
        id == Cardinality(workouts) + 1
    IN  /\ Running(p) /\ pr.pc = "wlog"
        /\ workouts' = workouts \cup
              {[id |-> id, userId |-> pr.user, completedAt |-> pr.wp.completedAt]}
        /\ procs' = [procs EXCEPT ![p] = WorkoutLoop([pr EXCEPT !.wp.id = id, !.i = 1])]
        /\ UNCHANGED <<clock, planVars, goals, nextGoal, metrics, prs, workoutDocs, jobLogs,
                       faults, schedVars>>

\* findPersonalRecordsByUser(userId) and the isNew test on the returned record
StepPRList(p) ==
    LET pr == procs[p]
        isNew == \E existing \in prs :
                    /\ existing.userId = pr.user
                    /\ existing.id = pr.rec.id
                    /\ existing.achievedAt = pr.wp.completedAt
    IN  /\ Running(p) /\ pr.pc = "prlist"
        /\ procs' = [procs EXCEPT ![p] =
              WorkoutLoop([pr EXCEPT !.news = IF isNew THEN Append(@, pr.rec) ELSE @,
                                     !.reported = IF isNew THEN @ \cup {pr.i} ELSE @,
                                     !.i = @ + 1])]
        /\ UNCHANGED <<clock, storeVars, faults, schedVars>>

\* workoutRef.get() of WorkoutRepository.update and WorkoutRepository.delete
StepWGet(p) ==
    LET pr == procs[p]
    IN  /\ Running(p) /\ pr.pc = "wget"
        /\ procs' = [procs EXCEPT ![p] =
              IF workoutDocs[pr.workout].id = 0 THEN Threw(pr, "NotFound")
              ELSE [pr EXCEPT !.pc = IF pr.op = "deleteWorkout" THEN "wddelete"
                                     ELSE "wwrite"]]
        /\ UNCHANGED <<clock, storeVars, faults, schedVars>>

\* workoutRef.update(updates): rejected by the store when the document is missing
StepWWrite(p) ==
    LET pr == procs[p]
    IN  /\ Running(p) /\ pr.pc = "wwrite"
        /\ IF workoutDocs[pr.workout].id = 0
           THEN /\ procs' = [procs EXCEPT ![p] = Threw(pr, "NoDocumentToUpdate")]
                /\ UNCHANGED workoutDocs
           ELSE /\ workoutDocs' = [workoutDocs EXCEPT ![pr.workout].status = pr.wstatus]
                /\ procs' = [procs EXCEPT ![p] =
                      [pr EXCEPT !.pc = "wreread", !.wrote = @ \cup {pr.workout}]]
        /\ UNCHANGED <<clock, planVars, goals, nextGoal, metrics, prs, workouts, jobLogs,
                       faults, schedVars>>

\* workoutRef.delete(): succeeds whether or not the document is there
StepWDeleteDoc(p) ==
    LET pr == procs[p]
    IN  /\ Running(p) /\ pr.pc = "wddelete"
        /\ workoutDocs' = [workoutDocs EXCEPT ![pr.workout] = NoDoc]
        /\ procs' = [procs EXCEPT ![p] = Finish(pr, NoDoc)]
        /\ UNCHANGED <<clock, planVars, goals, nextGoal, metrics, prs, workouts, jobLogs,
                       faults, schedVars>>

\* db.collection("workouts").doc(): an auto-generated id, which no stored
\* document has and no call holds
FreshWorkoutIds ==
    {w \in DOMAIN workoutDocs :
        /\ workoutDocs[w].id = 0
        /\ \A q \in ProcIds : procs[q].workout # w /\ w \notin procs[q].created}

\* WorkoutRepository.create: workoutRef.set(workout) on a new document
StepWCreateSet(p) ==
    LET pr == procs[p]
    IN  /\ Running(p) /\ pr.pc = "wcset"
        /\ \E w \in FreshWorkoutIds :
              /\ workoutDocs' = [workoutDocs EXCEPT ![w] = WorkoutDoc(w, pr.user)]
              /\ procs' = [procs EXCEPT ![p] = Finish([pr EXCEPT !.workout = w], NoDoc)]
        /\ UNCHANGED <<clock, planVars, goals, nextGoal, metrics, prs, workouts, jobLogs,
                       faults, schedVars>>

\* return this.findById(workoutId); completeWorkout and updateWorkout return
StepWReread(p) ==
    LET pr == procs[p]
    IN  /\ Running(p) /\ pr.pc = "wreread"
        /\ procs' = [procs EXCEPT ![p] =
              IF workoutDocs[pr.workout].id = 0 THEN Threw(pr, "NotFound")
              ELSE Finish(pr, NoDoc)]
        /\ UNCHANGED <<clock, storeVars, faults, schedVars>>

(***************************************************************************)
(* Workout plans: WorkoutPlanService.enrollUserInPlan enrols the user      *)
(* (WorkoutPlanRepository.enrollUser) and creates one scheduled workout    *)
(* for every week-1 workout of the plan; deleteWorkoutPlan removes a plan  *)
(***************************************************************************)
PlanWorkout(week) == [weekNumber |-> week]
PlanDoc(id, planWorkouts) == [id |-> id, workouts |-> planWorkouts, enrolledCount |-> 0]

\* the enrolment document enrollUser builds: status active, startDate = now
Enrollment(id, userId, planId, now) ==
    [id |-> id, userId |-> userId, planId |-> planId, startDate |-> now,
     status |-> "active"]

\* plan.workouts.filter((w) => w.weekNumber === 1)
WeekWorkouts(plan) == SelectSeq(plan.workouts, LAMBDA w : w.weekNumber = 1)

\* WorkoutPlanService.enrollUserInPlan(userId, planId) up to its first await
CallEnrollUserInPlan(p, userId, planId) ==
    /\ Idle(p)
    /\ procs' = [procs EXCEPT ![p] =
          [NewCall("enrollUserInPlan", userId, 0, NoPatch, "efind") EXCEPT !.plan = planId]]
    /\ UNCHANGED <<clock, storeVars, faults, schedVars>>

\* const plan = await this.workoutPlanRepository.findById(planId)
StepEnrollFind(p) ==
    LET pr == procs[p]
        doc == workoutPlans[pr.plan]
    IN  /\ Running(p) /\ pr.pc = "efind"
        /\ procs' = [procs EXCEPT ![p] =
              IF doc.id = 0 THEN Threw(pr, "NotFound")
              ELSE [pr EXCEPT !.pc = "echeck", !.planDoc = doc]]
        /\ UNCHANGED <<clock, storeVars, faults, schedVars>>

\* enrollUser: await this.findById(planId)
StepEnrollCheck(p) ==
    LET pr == procs[p]
    IN  /\ Running(p) /\ pr.pc = "echeck"
        /\ procs' = [procs EXCEPT ![p] =
              IF workoutPlans[pr.plan].id = 0 THEN Threw(pr, "NotFound")
              ELSE [pr EXCEPT !.pc = "equery"]]
        /\ UNCHANGED <<clock, storeVars, faults, schedVars>>

\* enrollUser: the query for an active enrolment of the user in the plan; when
\* there is none the enrolment is built with now = new Date()
StepEnrollQuery(p) ==
    LET pr == procs[p]
        existing == {e \in workoutPlanEnrollments :
                        e.userId = pr.user /\ e.planId = pr.plan /\ e.status = "active"}
    IN  /\ Running(p) /\ pr.pc = "equery"
        /\ procs' = [procs EXCEPT ![p] =
              IF existing # {} THEN Threw(pr, "AlreadyEnrolled")
              ELSE [pr EXCEPT !.pc = "eset", !.now = clock]]
        /\ UNCHANGED <<clock, storeVars, faults, schedVars>>

\* enrollUser: enrollmentRef.set(enrollment) on a new document; the frame's
\* number stands for its auto-generated id
StepEnrollSet(p) ==
    LET pr == procs[p]
    IN  /\ Running(p) /\ pr.pc = "eset"
        /\ workoutPlanEnrollments' =
              workoutPlanEnrollments \cup {Enrollment(p, pr.user, pr.plan, pr.now)}
        /\ procs' = [procs EXCEPT ![p] = [pr EXCEPT !.pc = "ecount"]]
        /\ UNCHANGED <<clock, workoutPlans, goals, nextGoal, metrics, prs, workouts,
                       workoutDocs, jobLogs, faults, schedVars>>

\* enrollUser: (await this.findById(planId)).enrolledCount + 1, the argument of
\* the update
StepEnrollCount(p) ==
    LET pr == procs[p]
        doc == workoutPlans[pr.plan]
    IN  /\ Running(p) /\ pr.pc = "ecount"
        /\ procs' = [procs EXCEPT ![p] =
              IF doc.id = 0 THEN Threw(pr, "NotFound")
              ELSE [pr EXCEPT !.pc = "eupdate", !.count = doc.enrolledCount + 1]]
        /\ UNCHANGED <<clock, storeVars, faults, schedVars>>

\* enrollUser: planRef.update({enrolledCount}), rejected by the store when the
\* document is missing; enrollUser returns and enrollUserInPlan goes on to its
\* loop over the week-1 workouts of the plan it read first
StepEnrollUpdate(p) ==
    LET pr == procs[p]
        doc == workoutPlans[pr.plan]
    IN  /\ Running(p) /\ pr.pc = "eupdate"
        /\ IF doc.id = 0
           THEN /\ procs' = [procs EXCEPT ![p] = Threw(pr, "NoDocumentToUpdate")]
                /\ UNCHANGED workoutPlans
           ELSE /\ workoutPlans' =
                      [workoutPlans EXCEPT ![pr.plan].enrolledCount = pr.count]
                /\ procs' = [procs EXCEPT ![p] =
                      IF Len(WeekWorkouts(pr.planDoc)) = 0
                      THEN Finish(pr, Enrollment(p, pr.user, pr.plan, pr.now))
                      ELSE [pr EXCEPT !.pc = "ecreate", !.i = 1]]
        /\ UNCHANGED <<clock, workoutPlanEnrollments, goals, nextGoal, metrics, prs,
                       workouts, workoutDocs, jobLogs, faults, schedVars>>

\* enrollUserInPlan: await this.workoutRepository.create(userId, workoutData) for
\* the i-th week-1 workout, workoutsCreated++; after the last one the call returns
StepEnrollCreate(p) ==
    LET pr == procs[p]
    IN  /\ Running(p) /\ pr.pc = "ecreate"
        /\ \E w \in FreshWorkoutIds :
              /\ workoutDocs' = [workoutDocs EXCEPT ![w] = WorkoutDoc(w, pr.user)]
              /\ procs' = [procs EXCEPT ![p] =
                    LET nx == [pr EXCEPT !.created = @ \cup {w}, !.i = @ + 1]
                    IN  IF pr.i = Len(WeekWorkouts(pr.planDoc))
                        THEN Finish(nx, Enrollment(p, pr.user, pr.plan, pr.now))
                        ELSE nx]
        /\ UNCHANGED <<clock, planVars, goals, nextGoal, metrics, prs, workouts, jobLogs,
                       faults, schedVars>>

\* WorkoutPlanService.deleteWorkoutPlan(planId) up to its first await
CallDeleteWorkoutPlan(p, planId) ==
    /\ Idle(p)
    /\ procs' = [procs EXCEPT ![p] =
          [NewCall("deleteWorkoutPlan", NoUser, 0, NoPatch, "pget") EXCEPT !.plan = planId]]
    /\ UNCHANGED <<clock, storeVars, faults, schedVars>>

\* WorkoutPlanService.updateWorkoutPlan(planId, {workouts}) up to its first await
CallUpdateWorkoutPlan(p, planId, planWorkouts) ==
    /\ Idle(p)
    /\ procs' = [procs EXCEPT ![p] =
          [NewCall("updateWorkoutPlan", NoUser, 0, NoPatch, "pget") EXCEPT
              !.plan = planId, !.planDoc = PlanDoc(0, planWorkouts)]]
    /\ UNCHANGED <<clock, storeVars, faults, schedVars>>

\* WorkoutPlanService.createWorkoutPlan(userId, planData) up to its await
CallCreateWorkoutPlan(p, userId, planWorkouts) ==
    /\ Idle(p)
    /\ procs' = [procs EXCEPT ![p] =
          [NewCall("createWorkoutPlan", userId, 0, NoPatch, "pcset") EXCEPT
              !.planDoc = PlanDoc(0, planWorkouts)]]
    /\ UNCHANGED <<clock, storeVars, faults, schedVars>>

\* WorkoutPlanRepository.create: planRef.set(plan) on a new document, whose
\* auto-generated id no stored plan has and no call holds; enrolledCount 0
StepPlanCreateSet(p) ==
    LET pr == procs[p]
        fresh == {k \in PlanIds : /\ workoutPlans[k].id = 0
                                  /\ \A q \in ProcIds : procs[q].plan # k}
    IN  /\ Running(p) /\ pr.pc = "pcset"
        /\ \E k \in fresh :
              /\ workoutPlans' = [workoutPlans EXCEPT ![k] = PlanDoc(k, pr.planDoc.workouts)]
              /\ procs' = [procs EXCEPT ![p] = Finish([pr EXCEPT !.plan = k], NoDoc)]
        /\ UNCHANGED <<clock, workoutPlanEnrollments, goals, nextGoal, metrics, prs,
                       workouts, workoutDocs, jobLogs, faults, schedVars>>

\* WorkoutPlanRepository.update and delete: planRef.get()
StepPlanGet(p) ==
    LET pr == procs[p]
    IN  /\ Running(p) /\ pr.pc = "pget"
        /\ procs' = [procs EXCEPT ![p] =
              IF workoutPlans[pr.plan].id = 0 THEN Threw(pr, "NotFound")
              ELSE IF pr.op = "updateWorkoutPlan" THEN [pr EXCEPT !.pc = "pupdate"]
              ELSE [pr EXCEPT !.pc = "pdelete"]]
        /\ UNCHANGED <<clock, storeVars, faults, schedVars>>

\* WorkoutPlanRepository.update: planRef.update(updates), rejected by the store
\* when the document is missing
StepPlanUpdate(p) ==
    LET pr == procs[p]
    IN  /\ Running(p) /\ pr.pc = "pupdate"
        /\ IF workoutPlans[pr.plan].id = 0
           THEN /\ procs' = [procs EXCEPT ![p] = Threw(pr, "NoDocumentToUpdate")]
                /\ UNCHANGED workoutPlans
           ELSE /\ workoutPlans' =
                      [workoutPlans EXCEPT ![pr.plan].workouts = pr.planDoc.workouts]
                /\ procs' = [procs EXCEPT ![p] = [pr EXCEPT !.pc = "preread"]]
        /\ UNCHANGED <<clock, workoutPlanEnrollments, goals, nextGoal, metrics, prs,
                       workouts, workoutDocs, jobLogs, faults, schedVars>>

\* WorkoutPlanRepository.update: return this.findById(planId)
StepPlanReread(p) ==
    LET pr == procs[p]
    IN  /\ Running(p) /\ pr.pc = "preread"
        /\ procs' = [procs EXCEPT ![p] =
              IF workoutPlans[pr.plan].id = 0 THEN Threw(pr, "NotFound")
              ELSE Finish(pr, workoutPlans[pr.plan])]
        /\ UNCHANGED <<clock, storeVars, faults, schedVars>>

\* WorkoutPlanRepository.delete: planRef.delete()
StepPlanDelete(p) ==
    LET pr == procs[p]
    IN  /\ Running(p) /\ pr.pc = "pdelete"
        /\ workoutPlans' = [workoutPlans EXCEPT ![pr.plan] = NoDoc]
        /\ procs' = [procs EXCEPT ![p] = Finish(pr, NoDoc)]
        /\ UNCHANGED <<clock, workoutPlanEnrollments, goals, nextGoal, metrics, prs,
                       workouts, workoutDocs, jobLogs, faults, schedVars>>

(***************************************************************************)
(* Specification of sequential upserts: over a store with no record or one *)
(* record of the bench press, upsertPersonalRecord is called again and     *)
(* again, each call after the previous one has returned, while time passes *)
(***************************************************************************)
MaxLift == 2

Squat == "squat"
Exercises == {Bench, Squat}
Lifts == 1..MaxLift

\* a record of the bench press achieved before the behaviour starts
PastRecord(userId, weight, reps) ==
    [BenchRecord(userId, weight, reps) EXCEPT
        !.achievedAt = 0 - 2, !.createdAt = 0 - 2, !.updatedAt = 0 - 2]

\* a call may start when no call is running
SeqProcs == IF \E q \in ProcIds : Running(q) THEN {} ELSE FreeProcs

InitUpsert ==
    /\ clock = 0
    /\ goals = [g \in GoalIds |-> NoDoc]
    /\ nextGoal = 1
    /\ metrics = [u \in Users |-> <<>>]
    /\ prs \in {{}, {PastRecord("u1", 1, 1)}, {PastRecord("u1", MaxLift, 1)}}
    /\ workouts = {}
    /\ workoutDocs = [w \in WorkoutIds |-> NoDoc]
    /\ jobLogs = {}
    /\ procs = [p \in ProcIds |-> IdleProc]
    /\ PlansEmpty
    /\ faults = 0
    /\ SchedulerConstructed

NextUpsert ==
    \/ Tick
    \/ \E p \in SeqProcs, x \in Exercises, w \in Lifts, r \in Lifts :
          \E id \in IF x = Bench THEN {Undef, 1} ELSE {1} :
             CallUpsertPersonalRecord(p, "u1", x, w, r, id)
    \/ \E p \in ProcIds : StepPRQuery(p)
    \/ \E p \in ProcIds : StepPRUpdate(p)
    \/ \E p \in ProcIds : StepPRSet(p)

SpecUpsert == InitUpsert /\ [][NextUpsert]_vars

\* performance a is better than b: heavier, or as heavy with more reps
LexGreater(a, b) == a.weight > b.weight \/ (a.weight = b.weight /\ a.reps > b.reps)

Upserted(pr) == pr.op = "upsertPersonalRecord" /\ pr.outcome = "returned"

\* the records of the call's pair that were stored when the call was made
Old(pr) == {r \in pr.before : r.userId = pr.user /\ r.exerciseId = pr.cand.exerciseId}

\* the performances of exercise x seen so far: the one stored at first, and the
\* candidates of the calls that have returned
Seen(x) ==
    {[weight |-> r.weight, reps |-> r.reps] :
        r \in {s \in procs[1].before : s.userId = "u1" /\ s.exerciseId = x}}
    \cup {[weight |-> procs[p].cand.weight, reps |-> procs[p].cand.reps] :
            p \in {q \in ProcIds : Upserted(procs[q]) /\ procs[q].cand.exerciseId = x}}

\* C14: an upsert inserts the candidate when the pair has no record; when it has one,
\* it replaces its weight and reps exactly when the candidate is heavier, or as heavy
\* with more reps, and otherwise leaves it unchanged; so after any sequential series
\* of upserts the stored (weight, reps) is the lexicographic maximum of the
\* performances seen, and the records of other pairs are untouched.
C14_UpsertKeepsLexMax ==
    /\ \A p \in ProcIds : (Latest(p) /\ Upserted(procs[p])) =>
          LET pr == procs[p]
          IN  IF Old(pr) = {}
              THEN \E r \in prs \ pr.before :
                      /\ prs = pr.before \cup {r}
                      /\ r.userId = pr.user /\ r.exerciseId = pr.cand.exerciseId
                      /\ r.weight = pr.cand.weight /\ r.reps = pr.cand.reps
              ELSE \A e \in Old(pr) :
                      IF LexGreater(pr.cand, e)
                      THEN \E r \in prs :
                              /\ r.id = e.id /\ prs \ {r} = pr.before \ {e}
                              /\ r.userId = e.userId /\ r.exerciseId = e.exerciseId
                              /\ r.weight = pr.cand.weight /\ r.reps = pr.cand.reps
                      ELSE prs = pr.before
    /\ (~Idle(1) /\ \A p \in ProcIds : ~Running(p)) =>
          \A x \in Exercises :
              /\ Seen(x) = {} => RecordsOf("u1", x) = {}
              /\ Seen(x) # {} =>
                    /\ Cardinality(RecordsOf("u1", x)) = 1
                    /\ \A r \in RecordsOf("u1", x) :
                          /\ [weight |-> r.weight, reps |-> r.reps] \in Seen(x)
                          /\ \A s \in Seen(x) : ~LexGreater(s, r)

\* C14 witness: a second upsert as heavy as the stored record, with more reps, has
\* replaced it
C14_Witness ==
    \E p \in ProcIds :
        /\ p > 1 /\ Upserted(procs[p]) /\ procs[p].found # NoPR
        /\ procs[p].cand.weight = procs[p].found.weight
        /\ procs[p].cand.reps > procs[p].found.reps
        /\ \E r \in prs : r.id = procs[p].found.id /\ r.reps = procs[p].cand.reps

\* the candidate of the call does not supersede the record stored for its pair
NonSuperseding(pr) ==
    Upserted(pr) /\ Old(pr) # {} /\ \A e \in Old(pr) : ~LexGreater(pr.cand, e)

\* C16: an upsert with a non-superseding candidate performs no write: after one such
\* call, and after a second one with identical input, the stored records (weight,
\* reps, achievedAt, workoutProgressId, updatedAt) are those stored before the
\* calls, and the record returned is the stored one.
C16_NonSupersedingUpsertWritesNothing ==
    \A p \in ProcIds : NonSuperseding(procs[p]) =>
        /\ Latest(p) =>
              /\ prs = procs[p].before
              /\ procs[p].rec \in Old(procs[p])
        /\ \A q \in ProcIds :
              (/\ q = p + 1 /\ Latest(q) /\ Upserted(procs[q])
               /\ procs[q].user = procs[p].user /\ procs[q].cand = procs[p].cand
               /\ procs[q].wp = procs[p].wp) =>
                    /\ prs = procs[p].before
                    /\ procs[q].rec = procs[p].rec
                    /\ procs[q].rec \in prs

\* C16 witness: the same non-superseding upsert has been applied twice, at
\* different times
C16_Witness ==
    \E p, q \in ProcIds :
        /\ q = p + 1 /\ NonSuperseding(procs[p]) /\ NonSuperseding(procs[q])
        /\ procs[q].cand = procs[p].cand /\ procs[q].wp = procs[p].wp
        /\ procs[q].now > procs[p].now
        /\ procs[q].cand.weight = procs[q].rec.weight
        /\ procs[q].cand.reps = procs[q].rec.reps

(***************************************************************************)
(* Specification of concurrent completions: the owner completes a workout  *)
(* in several requests at once, over a store with no personal record or    *)
(* one, while time passes                                                  *)
(***************************************************************************)
\* an ExerciseProgress: the exercise and its sets
Exercise(exerciseId, actualWeight, actualReps) ==
    [exerciseId |-> exerciseId, actualWeight |-> actualWeight, actualReps |-> actualReps]

\* the completions offered: one bench set, a heavier one, and the bench press
\* twice in one completion, the second time lighter
WorkoutInputs ==
    {<<Exercise(Bench, <<1>>, <<1>>)>>,
     <<Exercise(Bench, <<2>>, <<1>>)>>,
     <<Exercise(Bench, <<2>>, <<2>>), Exercise(Bench, <<1>>, <<1>>)>>}

InitWorkout ==
    /\ clock = 0
    /\ goals = [g \in GoalIds |-> NoDoc]
    /\ nextGoal = 1
    /\ metrics = [u \in Users |-> <<>>]
    /\ prs \in {{}, {PastRecord("u1", 1, 1)}}
    /\ workouts = {}
    /\ workoutDocs = [w \in WorkoutIds |-> WorkoutDoc(w, "u1")]
    /\ jobLogs = {}
    /\ procs = [p \in ProcIds |-> IdleProc]
    /\ PlansEmpty
    /\ faults = 0
    /\ SchedulerConstructed

NextWorkout ==
    \/ Tick
    \/ \E p \in FreeProcs, w \in WorkoutIds, x \in WorkoutInputs :
          CallCompleteWorkout(p, "u1", w, x)
    \/ \E p \in ProcIds : StepWFind(p)
    \/ \E p \in ProcIds : StepWLog(p)
    \/ \E p \in ProcIds : StepPRQuery(p)
    \/ \E p \in ProcIds : StepPRUpdate(p)
    \/ \E p \in ProcIds : StepPRSet(p)
    \/ \E p \in ProcIds : StepPRList(p)
    \/ \E p \in ProcIds : StepWGet(p)
    \/ \E p \in ProcIds : StepWWrite(p)
    \/ \E p \in ProcIds : StepWReread(p)

SpecWorkout == InitWorkout /\ [][NextWorkout]_vars

\* C15: there is at most one PersonalRecord per (user, exercise) pair in every
\* reachable state, also when two completions of the same user with the same
\* exercise run upsertPersonalRecord concurrently while the pair has no record.
C15_OneRecordPerPair ==
    \A u \in Users, x \in Exercises : Cardinality(RecordsOf(u, x)) <= 1

(***************************************************************************)
(* Specification of one completion: a single completeWorkout call over     *)
(* the bench press with up to MaxSets sets, the weight and reps arrays of  *)
(* any lengths, alone or followed by a second exercise                     *)
(***************************************************************************)
MaxSets == 2

\* the arrays of at most MaxSets numbers in 0..MaxLift
SetArrays == UNION {[1..n -> 0..MaxLift] : n \in 0..MaxSets}

\* the arrays of at most MaxSets repetition counts: none, one or the most
RepArrays == UNION {[1..n -> {0, 1, MaxLift}] : n \in 0..MaxSets}

\* the exercise that may follow another one in a completion
SecondExercises ==
    {Exercise(Bench, <<1>>, <<1>>), Exercise(Squat, <<1>>, <<1>>),
     Exercise(Squat, <<0>>, <<1>>), Exercise(Squat, <<1, 1>>, <<1, 2>>)}

InitCandidate ==
    /\ clock = 0
    /\ goals = [g \in GoalIds |-> NoDoc]
    /\ nextGoal = 1
    /\ metrics = [u \in Users |-> <<>>]
    /\ prs \in {{}, {PastRecord("u1", 1, 1)}}
    /\ workouts = {}
    /\ workoutDocs = [w \in WorkoutIds |-> WorkoutDoc(w, "u1")]
    /\ jobLogs = {}
    /\ procs = [p \in ProcIds |-> IdleProc]
    /\ PlansEmpty
    /\ faults = 0
    /\ SchedulerConstructed

NextCandidate ==
    \/ Tick
    \/ \E p \in SoloProcs, u \in Users, ws \in SetArrays, rs \in RepArrays :
          \/ CallCompleteWorkout(p, u, 1, <<Exercise(Bench, ws, rs)>>)
          \/ \E second \in SecondExercises :
                CallCompleteWorkout(p, u, 1, <<Exercise(Bench, ws, rs), second>>)
    \/ \E p \in ProcIds : StepWFind(p)
    \/ \E p \in ProcIds : StepWLog(p)
    \/ \E p \in ProcIds : StepPRQuery(p)
    \/ \E p \in ProcIds : StepPRUpdate(p)
    \/ \E p \in ProcIds : StepPRSet(p)
    \/ \E p \in ProcIds : StepPRList(p)
    \/ \E p \in ProcIds : StepWGet(p)
    \/ \E p \in ProcIds : StepWWrite(p)
    \/ \E p \in ProcIds : StepWReread(p)

SpecCandidate == InitCandidate /\ [][NextCandidate]_vars

Completed(pr) == pr.op = "completeWorkout" /\ pr.outcome = "returned"

\* C17: completeWorkout reports an exercise's record in newPersonalRecords exactly
\* when that exercise's candidate created the record or superseded the stored one.
C17_NewRecordsAreTheChangedOnes ==
    \A p \in ProcIds : Completed(procs[p]) =>
        /\ procs[p].reported = procs[p].changed
        /\ Len(procs[p].news) = Cardinality(procs[p].changed)

\* (w, r) is the representative performance of the exercise: w its maximum weight
\* and r the reps at the first set of that weight
Representative(exercise, w, r) ==
    \E k \in 1..Len(exercise.actualWeight) :
        /\ exercise.actualWeight[k] = w
        /\ \A j \in 1..Len(exercise.actualWeight) : exercise.actualWeight[j] <= w
        /\ \A j \in 1..(k - 1) : exercise.actualWeight[j] # w
        /\ k <= Len(exercise.actualReps) /\ exercise.actualReps[k] = r

\* C18: for each exercise of a completed workout, independently of the others, the
\* candidate passed to upsertPersonalRecord is (w, r), w the maximum entry of its
\* actualWeight and r the actualReps entry at the first index of that weight; an
\* upsert is made for an exercise only if w > 0 and r > 0, and then it is made.
C18_CandidateIsFirstMaxWeightSet ==
    \A p \in ProcIds : procs[p].op = "completeWorkout" =>
        LET pr == procs[p]
            made == {pr.upserts[k].i : k \in 1..Len(pr.upserts)}
        IN  /\ \A k \in 1..Len(pr.upserts) :
                  LET u == pr.upserts[k]
                  IN  /\ u.i \in 1..Len(pr.exs)
                      /\ u.cand.exerciseId = pr.exs[u.i].exerciseId
                      /\ Representative(pr.exs[u.i], u.cand.weight, u.cand.reps)
                      /\ u.cand.weight > 0 /\ u.cand.reps > 0
                      /\ \A j \in 1..(k - 1) : pr.upserts[j].i < u.i
            /\ pr.outcome = "returned" =>
                  \A i \in 1..Len(pr.exs) :
                      (\E w \in 1..MaxLift, r \in 1..MaxLift : Representative(pr.exs[i], w, r))
                          => i \in made

\* C18 witness: a completion has returned in which two sets of an exercise tie at
\* the maximum weight with different reps, and its candidate was offered
C18_Witness ==
    \E p \in ProcIds :
        /\ Completed(procs[p])
        /\ \E k \in 1..Len(procs[p].upserts) :
              LET x == procs[p].exs[procs[p].upserts[k].i]
              IN  /\ Len(x.actualWeight) >= 2 /\ Len(x.actualReps) >= 2
                  /\ x.actualWeight[1] = x.actualWeight[2]
                  /\ x.actualWeight[1] = procs[p].upserts[k].cand.weight
                  /\ x.actualReps[1] # x.actualReps[2] /\ x.actualReps[2] > 0

(***************************************************************************)
(* Specification of one progress refresh: a single live refresh            *)
(* (updateGoalProgress) or scheduled refresh (UpdateGoalProgressJob) of a  *)
(* stored weight, body_fat, strength or workout_frequency goal of u1, over *)
(* every start value, target and latest sample in 0..MaxValue and every    *)
(* set of logged completions around the edges of the windows               *)
(***************************************************************************)
MaxValue == 3

Values == 0..MaxValue

\* a body-metric sample carries a weight, a body-fat value or both
Samples ==
    {[id |-> 1, weight |-> v, bodyFat |-> Undef] : v \in Values}
        \cup {[id |-> 1, weight |-> Undef, bodyFat |-> v] : v \in Values}
        \cup {[id |-> 1, weight |-> v, bodyFat |-> MaxValue - v] : v \in Values}

\* the sample that precedes the latest one in a history of two
OlderSample == [id |-> 2, weight |-> 0, bodyFat |-> MaxValue]

MeasureDto(type, target, startValue) ==
    Dto(type, IF type = "weight" THEN target ELSE Undef,
        IF type = "body_fat" THEN target ELSE Undef, NoTarget, NoFreq, startValue,
        FarDeadline)

LiftDto(targetWeight) ==
    Dto("strength", Undef, Undef,
        [exerciseId |-> Bench, targetWeight |-> targetWeight, targetReps |-> MaxLift],
        NoFreq, Undef, FarDeadline)

\* a stored goal as created, or as an earlier refresh left it
Refreshed(doc) == [doc EXCEPT !.currentValue = MaxValue, !.currentProgress = <<50, 1>>]

\* createGoalSchema also accepts a weight goal that carries only targetBodyFat, and
\* a body_fat goal that carries only targetWeight
CrossDto(type, target, startValue) ==
    Dto(type, IF type = "weight" THEN Undef ELSE target,
        IF type = "body_fat" THEN Undef ELSE target, NoTarget, NoFreq, startValue,
        FarDeadline)

MeasureDocs(g) ==
    LET created == {GoalDoc(g, "u1", MeasureDto(type, target, sv)) :
                       type \in {"weight", "body_fat"}, target \in Values, sv \in Values}
                     \cup {GoalDoc(g, "u1", CrossDto(type, MaxValue, sv)) :
                              type \in {"weight", "body_fat"}, sv \in Values}
    IN  created \cup {Refreshed(doc) : doc \in created}

LiftDocs(g) ==
    LET created == {GoalDoc(g, "u1", LiftDto(tw)) : tw \in 0..MaxLift}
    IN  created \cup {Refreshed(doc) : doc \in created}

\* frequency targets: per week, per month, or both
FreqDto(perWeek, perMonth) ==
    Dto("workout_frequency", Undef, Undef, NoTarget,
        [workoutsPerWeek |-> perWeek, workoutsPerMonth |-> perMonth], Undef, FarDeadline)

FreqDocs(g) ==
    LET created == {GoalDoc(g, "u1", FreqDto(t, Undef)) : t \in 1..MaxValue}
                     \cup {GoalDoc(g, "u1", FreqDto(Undef, t)) : t \in 1..MaxValue}
                     \cup {GoalDoc(g, "u1", FreqDto(t, 1)) : t \in 1..MaxValue}
    IN  created \cup {Refreshed(doc) : doc \in created}

\* logged completions: now, on and past the edge of the week and of the month, and
\* one of another user
PastCompletions ==
    {[id |-> 1, userId |-> "u1", completedAt |-> 0],
     [id |-> 2, userId |-> "u1", completedAt |-> 0 - WeekWindow],
     [id |-> 3, userId |-> "u1", completedAt |-> 0 - WeekWindow - 1],
     [id |-> 4, userId |-> "u1", completedAt |-> 0 - MonthWindow],
     [id |-> 5, userId |-> "u1", completedAt |-> 0 - MonthWindow - 1],
     [id |-> 6, userId |-> "u2", completedAt |-> 0]}

InitProgress ==
    /\ clock = 0
    /\ goals \in [GoalIds -> MeasureDocs(1) \cup LiftDocs(1) \cup FreqDocs(1) \cup {NoDoc}]
    /\ \A g \in GoalIds : (goals[g] = NoDoc) <=> (g > 1)
    /\ nextGoal = NumGoals + 1
    /\ \/ /\ goals[1] \in MeasureDocs(1)
          /\ \E h \in {<<>>} \cup {<<s>> : s \in Samples}
                        \cup {<<s, OlderSample>> : s \in Samples} :
                metrics = [u \in Users |-> IF u = "u1" THEN h ELSE <<>>]
          /\ prs = {}
       \/ /\ goals[1] \in LiftDocs(1)
          /\ metrics = [u \in Users |-> <<>>]
          /\ prs \in {{}} \cup {{PastRecord("u1", w, 1)} : w \in Lifts}
                         \cup {{PastRecord("u1", MaxLift, MaxLift)}}
       \/ /\ goals[1] \in FreqDocs(1)
          /\ metrics = [u \in Users |-> <<>>]
          /\ prs = {}
    /\ workouts \in IF goals[1] \in FreqDocs(1) THEN SUBSET PastCompletions ELSE {{}}
    /\ workoutDocs = [w \in WorkoutIds |-> NoDoc]
    /\ jobLogs = {}
    /\ procs = [p \in ProcIds |-> IdleProc]
    /\ PlansEmpty
    /\ faults = 0
    /\ SchedulerConstructed

NextProgress ==
    \/ \E p \in SoloProcs, u \in Users, g \in GoalIds : CallUpdateGoalProgress(p, u, g)
    \/ \E p \in SoloProcs, t \in {"cron", "manual"} :
          CallExecuteJob(p, "update-goal-progress", t)
    \/ \E p \in ProcIds : StepFind(p)
    \/ \E p \in ProcIds : StepLoad(p)
    \/ \E p \in ProcIds : StepRead(p)
    \/ \E p \in ProcIds : StepGet(p)
    \/ \E p \in ProcIds : StepWrite(p)
    \/ \E p \in ProcIds : StepReread(p)
    \/ \E p \in ProcIds : StepLog(p)

SpecProgress == InitProgress /\ [][NextProgress]_vars

\* process frame pr is a refresh, by its owner or by the job, of stored goal g
RefreshOf(pr, g) ==
    /\ Exists(g)
    /\ \/ pr.op = "updateGoalProgress" /\ pr.goal = g /\ pr.user = goals[g].userId
       \/ pr.op = "executeJob" /\ pr.job = "update-goal-progress"

\* the refresh of frame pr has returned to its caller
RefreshEnded(pr) ==
    \/ pr.op = "updateGoalProgress" /\ pr.pc = "done"
    \/ pr.op = "executeJob" /\ pr.result.status # "none"

\* the value of the goal's type in the user's latest sample, Undef when there is none
LatestValue(g) ==
    LET h == metrics[goals[g].userId]
    IN  IF Len(h) = 0 THEN Undef
        ELSE IF goals[g].type = "weight" THEN h[1].weight ELSE h[1].bodyFat

\* the target of the goal's type
OwnTarget(g) ==
    IF goals[g].type = "weight" THEN goals[g].targetWeight ELSE goals[g].targetBodyFat

\* goal g is a weight or body_fat goal with a start value and its own target
Measured(g) ==
    /\ Exists(g) /\ goals[g].type \in {"weight", "body_fat"}
    /\ goals[g].startValue # Undef /\ OwnTarget(g) # Undef

\* how far value v lies from the start value in the direction of the target
Along(g, v) ==
    IF OwnTarget(g) > goals[g].startValue THEN v - goals[g].startValue
    ELSE goals[g].startValue - v

\* q is clamp(0, 100, (v - startValue) / (target - startValue) * 100)
IsClamp(q, g, v) ==
    LET n == Along(g, v)
        d == Abs(OwnTarget(g) - goals[g].startValue)
    IN  /\ q[2] > 0
        /\ IF n <= 0 THEN q[1] = 0
           ELSE IF n >= d THEN q[1] = 100 * q[2]
           ELSE q[1] * d = 100 * n * q[2]

PctLeq(a, b) == a[1] * b[2] <= b[1] * a[2]

\* C19: once a refresh (live or scheduled) of a weight or body_fat goal with a start
\* value, its own target and target # startValue has returned, the latest sample
\* holding the value v of the goal's type, the goal has currentValue = v and
\* currentProgress = clamp(0, 100, (v - startValue) / (target - startValue) * 100);
\* that progress lies within [0, 100] and is no less than the progress the
\* calculation gives for any value that lies no farther from the start value in
\* the direction of the target, whether the target is below or above the start
C19_ProgressIsClampedShare ==
    \A p \in ProcIds, g \in GoalIds :
        LET pr == procs[p]
            v == LatestValue(g)
            q == goals[g].currentProgress
        IN  (/\ RefreshOf(pr, g) /\ RefreshEnded(pr)
             /\ Measured(g) /\ OwnTarget(g) # goals[g].startValue /\ v # Undef)
            => /\ pr.outcome # "threw" /\ pr.result.status # "failure"
               /\ goals[g].currentValue = v
               /\ IsClamp(q, g, v)
               /\ q[2] > 0 /\ 0 <= q[1] /\ q[1] <= 100 * q[2]
               /\ \A w \in Values :
                     Along(g, w) <= Along(g, v)
                        => PctLeq(ChangePct(w, goals[g].startValue, OwnTarget(g)), q)

\* a refresh has returned on a goal whose target lies below its start value, the
\* latest sample part of the way down
C19_Witness ==
    \E p \in ProcIds, g \in GoalIds :
        /\ RefreshOf(procs[p], g) /\ RefreshEnded(procs[p]) /\ Measured(g)
        /\ OwnTarget(g) < goals[g].startValue
        /\ LatestValue(g) # Undef
        /\ LatestValue(g) < goals[g].startValue /\ LatestValue(g) > OwnTarget(g)
        /\ goals[g].currentValue = LatestValue(g)
        /\ goals[g].currentProgress \notin {<<0, 1>>, <<100, 1>>, <<50, 1>>}

\* the goal's history is missing: no body-metric sample for a weight or body_fat
\* goal, no personal record of the target exercise for a strength goal
NoHistory(g) ==
    \/ goals[g].type \in {"weight", "body_fat"} /\ Len(metrics[goals[g].userId]) = 0
    \/ /\ goals[g].type = "strength"
       /\ ~\E r \in prs : /\ r.userId = goals[g].userId
                          /\ r.exerciseId = goals[g].strengthTarget.exerciseId

\* no division of a refresh has had a zero denominator
NoZeroDivisor == \A p \in ProcIds : Denominator(0) \notin procs[p].divisors

\* a refresh of a weight or body_fat goal whose target equals its start value
\* leaves currentProgress as it was
DegenerateKeepsProgress ==
    \A p \in ProcIds, g \in GoalIds :
        (/\ RefreshOf(procs[p], g) /\ procs[p].before # <<>>
         /\ Measured(g) /\ OwnTarget(g) = goals[g].startValue)
        => /\ goals[g].currentProgress = procs[p].before[g].currentProgress
           /\ procs[p].outcome # "threw" /\ procs[p].result.status # "failure"

\* a refresh of a goal without history writes nothing to it and returns normally
NoHistoryNoUpdate ==
    \A p \in ProcIds, g \in GoalIds :
        (RefreshOf(procs[p], g) /\ procs[p].before # <<>> /\ NoHistory(g))
        => /\ goals[g] = procs[p].before[g]
           /\ procs[p].outcome # "threw" /\ procs[p].result.status # "failure"

\* C20: a progress refresh, live or scheduled, never divides by zero and never
\* raises for lack of history: for a weight or body_fat goal with
\* target = startValue the goal's currentProgress is left as it was, and when the
\* user has no body-metric sample (for a strength goal: no personal record of the
\* target exercise) the refresh makes no update to the goal and returns normally
C20_RefreshNeverDividesByZero ==
    NoZeroDivisor /\ DegenerateKeepsProgress /\ NoHistoryNoUpdate

\* the user's personal records of the goal's target exercise
RecordFor(g) ==
    IF ~Exists(g) THEN {}
    ELSE {r \in prs : /\ r.userId = goals[g].userId
                      /\ r.exerciseId = goals[g].strengthTarget.exerciseId}

\* C21: once a progress refresh (live or scheduled) of an active strength goal
\* whose user holds a personal record of the target exercise has returned: if the
\* record's weight and reps both reach the target the goal is completed with
\* currentProgress = 100; otherwise the goal is still active with
\* currentProgress = clamp(0, 100, record.weight / targetWeight * 100), the reps
\* taking no part in the percentage
C21_StrengthRefresh ==
    \A p \in ProcIds, g \in GoalIds : \A r \in RecordFor(g) :
        LET pr == procs[p]
            tw == goals[g].strengthTarget.targetWeight
            q == goals[g].currentProgress
        IN  (/\ RefreshOf(pr, g) /\ RefreshEnded(pr) /\ pr.outcome # "threw"
             /\ goals[g].type = "strength"
             /\ pr.before # <<>> /\ pr.before[g].status = "active")
            => IF r.weight >= tw /\ r.reps >= goals[g].strengthTarget.targetReps
               THEN goals[g].status = "completed" /\ q = <<100, 1>>
               ELSE /\ goals[g].status = "active"
                    /\ tw > 0 => /\ q[2] > 0
                                 /\ IF r.weight >= tw THEN q[1] = 100 * q[2]
                                    ELSE q[1] * tw = 100 * r.weight * q[2]

\* the number of the user's completions in the trailing window of the goal's target
WindowCount(g) ==
    LET ft == goals[g].frequencyTarget
        window == IF ft.workoutsPerWeek # Undef THEN 7 ELSE 30
    IN  Cardinality({w \in workouts : /\ w.userId = goals[g].userId
                                      /\ w.completedAt >= clock - window
                                      /\ w.completedAt <= clock})

WindowTarget(g) ==
    IF goals[g].frequencyTarget.workoutsPerWeek # Undef
    THEN goals[g].frequencyTarget.workoutsPerWeek
    ELSE goals[g].frequencyTarget.workoutsPerMonth

\* C22: a progress refresh of a workout_frequency goal never changes the goal's
\* status, and once it has returned currentProgress = clamp(0, 100, count / target
\* * 100), count being the user's completions of the trailing 7 days when
\* workoutsPerWeek is set, else of the trailing 30 days
C22_FrequencyRefresh ==
    \A p \in ProcIds, g \in GoalIds :
        LET pr == procs[p]
            q == goals[g].currentProgress
        IN  (/\ RefreshOf(pr, g) /\ pr.before # <<>>
             /\ goals[g].type = "workout_frequency")
            => /\ goals[g].status = pr.before[g].status
               /\ pr.outcome # "threw" /\ pr.result.status # "failure"
               /\ RefreshEnded(pr) =>
                     /\ q[2] > 0
                     /\ IF WindowCount(g) >= WindowTarget(g) THEN q[1] = 100 * q[2]
                        ELSE q[1] * WindowTarget(g) = 100 * WindowCount(g) * q[2]

\* a refresh of a weekly goal has returned with a completion older than the week in
\* the store, some completions inside the week and the progress short of 100
C22_Witness ==
    \E p \in ProcIds, g \in GoalIds :
        /\ RefreshOf(procs[p], g) /\ RefreshEnded(procs[p])
        /\ goals[g].type = "workout_frequency" /\ goals[g].status = "active"
        /\ goals[g].frequencyTarget.workoutsPerWeek # Undef
        /\ \E w \in workouts : w.userId = goals[g].userId /\ w.completedAt < clock - 7
        /\ WindowCount(g) > 0 /\ WindowCount(g) < WindowTarget(g)
        /\ goals[g].currentProgress \notin {<<0, 1>>, <<50, 1>>, <<100, 1>>}

\* C23: in every reachable state the currentProgress of every stored goal, when
\* present, is a number within [0, 100]
C23_ProgressWithinBounds ==
    \A g \in GoalIds :
        LET q == goals[g].currentProgress
        IN  (Exists(g) /\ q # PctUndef) => (q[2] > 0 /\ 0 <= q[1] /\ q[1] <= 100 * q[2])

(***************************************************************************)
(* Specification of the log cleanup: cleanup-old-logs runs, one run after  *)
(* the other, over a log collection holding none, a few, BatchLimit or     *)
(* BatchLimit + 1 entries older than the retention window                  *)
(***************************************************************************)
\* n entries older than the retention window
OldLogs(n) == {SeedLog(0 - k, 0 - RetentionDays - 1) : k \in 1..n}

\* entries inside the window: one exactly at its edge, one written now
FreshLogs == {SeedLog(0, 0 - RetentionDays), SeedLog(0, 0)}

InitCleanup ==
    /\ clock = 0
    /\ goals = [g \in GoalIds |-> NoDoc]
    /\ nextGoal = 1
    /\ metrics = [u \in Users |-> <<>>]
    /\ prs = {}
    /\ workouts = {}
    /\ workoutDocs = [w \in WorkoutIds |-> NoDoc]
    /\ \E n \in {0, 1, 2, BatchLimit, BatchLimit + 1}, fresh \in SUBSET FreshLogs :
          jobLogs = OldLogs(n) \cup fresh
    /\ procs = [p \in ProcIds |-> IdleProc]
    /\ PlansEmpty
    /\ faults = 0
    /\ SchedulerConstructed

NextCleanup ==
    \/ Tick
    \/ \E p \in SeqProcs, t \in {"cron", "manual"} :
          CallExecuteJob(p, "cleanup-old-logs", t)
    \/ \E p \in ProcIds : StepQuery(p)
    \/ \E p \in ProcIds : StepCommit(p)
    \/ \E p \in ProcIds : StepLog(p)

SpecCleanup == InitCleanup /\ [][NextCleanup]_vars

\* a run of cleanup-old-logs whose unit of work has ended
CleanupEnded(pr) ==
    pr.op = "executeJob" /\ pr.job = "cleanup-old-logs" /\ pr.result.status # "none"

\* C24: a run of cleanup-old-logs, however many entries are older than its cutoff,
\* ends successfully with every such entry deleted, no entry newer than the cutoff
\* deleted, and itemsProcessed equal to the number of entries deleted
C24_CleanupDeletesEveryOldLog ==
    \A p \in ProcIds :
        LET pr == procs[p]
        IN  CleanupEnded(pr)
            => /\ pr.result.status = "success"
               /\ \A l \in jobLogs : l.createdAt >= pr.now
               /\ \A l \in pr.batch : l.createdAt < pr.now /\ l \notin jobLogs
               /\ pr.result.itemsProcessed = Cardinality(pr.batch)

(***************************************************************************)
(* Specification of one call by any user: over stored goals of u1 and u2,  *)
(* a single updateGoal, deleteGoal, completeGoal, abandonGoal,             *)
(* updateGoalProgress or checkExpiredGoals call by u1 or by u2             *)
(***************************************************************************)
OwnerDocs(g) ==
    {NoDoc} \cup {StoredGoal(g, u, NearDeadline, st) :
                    u \in Users, st \in {"active", "completed"}}
           \cup {CreatedAt(StoredGoal(g, "u1", NearDeadline, "active"), 0 - 2)}

InitOwner ==
    /\ clock = 0
    /\ goals \in [GoalIds -> UNION {OwnerDocs(g) : g \in GoalIds}]
    /\ \A g \in GoalIds : goals[g] \in OwnerDocs(g)
    /\ nextGoal = NumGoals + 1
    /\ metrics = [u \in Users |-> <<[id |-> IF u = "u1" THEN 1 ELSE 2, weight |-> 2,
                                      bodyFat |-> Undef]>>]
    /\ prs = {}
    /\ workouts = {}
    /\ workoutDocs = [w \in WorkoutIds |-> NoDoc]
    /\ jobLogs = {}
    /\ procs = [p \in ProcIds |-> IdleProc]
    /\ PlansEmpty
    /\ faults = 0
    /\ SchedulerConstructed

NextOwner ==
    \/ Tick
    \/ \E p \in SoloProcs, u \in Users, g \in GoalIds : CallCompleteGoal(p, u, g)
    \/ \E p \in SoloProcs, u \in Users, g \in GoalIds : CallAbandonGoal(p, u, g)
    \/ \E p \in SoloProcs, u \in Users, g \in GoalIds :
          \E d \in {StatusPatch("abandoned"), DeadlinePatch(FarDeadline),
                     TargetWeightPatch(2)} :
             CallUpdateGoal(p, u, g, d)
    \/ \E p \in SoloProcs, u \in Users, g \in GoalIds : CallUpdateGoalProgress(p, u, g)
    \/ \E p \in SoloProcs, u \in Users, g \in GoalIds : CallDeleteGoal(p, u, g)
    \/ \E p \in SoloProcs, u \in Users : CallCheckExpiredGoals(p, u)
    \/ \E p \in ProcIds : StepFind(p)
    \/ \E p \in ProcIds : StepDeleteFind(p)
    \/ \E p \in ProcIds : StepDeleteGet(p)
    \/ \E p \in ProcIds : StepDeleteDoc(p)
    \/ \E p \in ProcIds : StepLoad(p)
    \/ \E p \in ProcIds : StepRead(p)
    \/ \E p \in ProcIds : StepGet(p)
    \/ \E p \in ProcIds : StepWrite(p)
    \/ \E p \in ProcIds : StepReread(p)

SpecOwner == InitOwner /\ [][NextOwner]_vars

OwnerOps == {"updateGoal", "deleteGoal", "completeGoal", "abandonGoal", "updateGoalProgress"}

\* frame pr is a call on a stored goal by a user who does not own it
Foreign(pr) ==
    pr.op \in OwnerOps /\ Exists(pr.goal) /\ goals[pr.goal].userId # pr.user

\* a call on a goal by a non-owner is at its first read or has failed with
\* AuthorizationError
ForeignCallsFail ==
    \A p \in ProcIds :
        Foreign(procs[p])
            => \/ procs[p].pc \in {"find", "dfind"}
               \/ procs[p].outcome = "threw" /\ procs[p].err = "Authorization"

\* a step that changes or removes a stored goal is a step of a call of its owner
OnlyOwnerWrites ==
    \A g \in GoalIds :
        (Exists(g) /\ goals'[g] # goals[g])
            => \E p \in ProcIds : /\ procs'[p] # procs[p]
                                  /\ procs[p].user = goals[g].userId

\* C25: updateGoal, deleteGoal, completeGoal, abandonGoal and updateGoalProgress
\* called by a user other than the goal's owner fail with AuthorizationError, and
\* every step that changes a stored goal, checkExpiredGoals(user) included, belongs
\* to a call made by the goal's owner
C25_OnlyOwnerMutates == [](ForeignCallsFail) /\ [][OnlyOwnerWrites]_vars

\* a call by a non-owner has failed with AuthorizationError on a stored goal
C25_Witness ==
    \E p \in ProcIds :
        /\ Foreign(procs[p]) /\ procs[p].op = "deleteGoal"
        /\ procs[p].outcome = "threw" /\ procs[p].err = "Authorization"

\* the candidates the calls have offered to the upserter for user u and exercise x
Offered(u, x) ==
    {c \in UNION {{procs[p].upserts[k].cand : k \in 1..Len(procs[p].upserts)} :
                     p \in {q \in ProcIds : procs[q].user = u}} : c.exerciseId = x}

\* no step makes the (weight, reps) of a stored record document worse
RecordNeverWorse ==
    \A r \in prs : \A s \in prs' : s.id = r.id => ~LexGreater(r, s)

\* with every call finished, the single record of a pair is no worse than any
\* candidate offered for the pair
RecordIsMaximum ==
    (\A p \in ProcIds : ~Running(p)) =>
        \A u \in Users, x \in Exercises :
            Cardinality(RecordsOf(u, x)) = 1 =>
                \A r \in RecordsOf(u, x) : \A c \in Offered(u, x) : ~LexGreater(c, r)

\* C26: under any interleaving of concurrent upserts for a (user, exercise) pair the
\* stored (weight, reps) of a record never decreases in the lexicographic order, and
\* once all calls have finished the record holds the maximum of all candidates
C26_RecordNeverGetsWorse == [](RecordIsMaximum) /\ [][RecordNeverWorse]_vars

(***************************************************************************)
(* Specification of the two refresh paths side by side: goals 1 and 2 are  *)
(* the same stored goal of u1 under two ids; the owner refreshes goal 1    *)
(* with updateGoalProgress, and the update-goal-progress job runs, one     *)
(* call after the other, over one metric history                           *)
(***************************************************************************)
TwinOf(doc, g) == [doc EXCEPT !.id = g]

InitTwin ==
    /\ clock = 0
    /\ \E doc \in MeasureDocs(1) \cup LiftDocs(1) \cup FreqDocs(1) :
          goals = [g \in GoalIds |-> IF g <= 2 THEN TwinOf(doc, g) ELSE NoDoc]
    /\ nextGoal = NumGoals + 1
    /\ \E h \in {<<>>} \cup {<<s>> : s \in Samples} :
          metrics = [u \in Users |-> IF u = "u1" /\ goals[1] \in MeasureDocs(1)
                                     THEN h ELSE <<>>]
    /\ prs \in IF goals[1] \in LiftDocs(1)
               THEN {{}} \cup {{PastRecord("u1", w, 1)} : w \in Lifts}
                         \cup {{PastRecord("u1", MaxLift, MaxLift)}}
               ELSE {{}}
    /\ workouts \in IF goals[1] \in FreqDocs(1) THEN SUBSET PastCompletions ELSE {{}}
    /\ workoutDocs = [w \in WorkoutIds |-> NoDoc]
    /\ jobLogs = {}
    /\ procs = [p \in ProcIds |-> IdleProc]
    /\ PlansEmpty
    /\ faults = 0
    /\ SchedulerConstructed

NextTwin ==
    \/ \E p \in SeqProcs : CallUpdateGoalProgress(p, "u1", 1)
    \/ \E p \in SeqProcs : CallExecuteJob(p, "update-goal-progress", "cron")
    \/ \E p \in ProcIds : StepFind(p)
    \/ \E p \in ProcIds : StepLoad(p)
    \/ \E p \in ProcIds : StepRead(p)
    \/ \E p \in ProcIds : StepGet(p)
    \/ \E p \in ProcIds : StepWrite(p)
    \/ \E p \in ProcIds : StepReread(p)
    \/ \E p \in ProcIds : StepLog(p)

SpecTwin == InitTwin /\ [][NextTwin]_vars

\* two goal documents agree on what a refresh may write
SameProgress(a, b) ==
    /\ a.status = b.status
    /\ a.currentValue = b.currentValue
    /\ a.currentProgress = b.currentProgress

\* C27: started from the same active goal and the same history, the live refresh
\* and the scheduled refresh leave the goal with the same status, currentValue and
\* currentProgress: once the owner's live refresh of goal 1 has returned and a run of
\* the job that started after it has ended, goal 2 as the job left it agrees with
\* goal 1 as the live refresh left it
C27_LiveAndScheduledAgree ==
    \A p \in ProcIds, q \in ProcIds :
        (/\ p < q
         /\ \A o \in ProcIds \ {p, q} : Idle(o)
         /\ procs[p].op = "updateGoalProgress" /\ procs[p].outcome = "returned"
         /\ procs[q].op = "executeJob" /\ procs[q].result.status = "success")
        => SameProgress(procs[q].before[1], goals[2])

\* a step leaves currentValue and currentProgress of every goal that is completed,
\* abandoned or expired when the step is taken as they are
TerminalProgressKept ==
    \A g \in GoalIds :
        (Exists(g) /\ goals[g].status \in TerminalStatus /\ goals'[g].id # 0)
            => /\ goals'[g].currentValue = goals[g].currentValue
               /\ goals'[g].currentProgress = goals[g].currentProgress

\* C28: no write of a progress refresh, live or scheduled, changes currentValue or
\* currentProgress of a goal whose status is completed, abandoned or expired at the
\* time of the write
C28_RefreshOnlyActiveGoals == [][TerminalProgressKept]_vars


(***************************************************************************)
(* completeWorkout against a store that may fail: one call per behaviour,  *)
(* by the workout's owner or by the other user, a store call of it may     *)
(* throw, and another call of the workout service or of the workout plan   *)
(* service (an enrolment creating the plan's workouts) may run beside it   *)
(***************************************************************************)
\* the process of the single completeWorkout call of a behaviour
CompleteProcs ==
    IF \E q \in ProcIds : procs[q].op = "completeWorkout" THEN {} ELSE FreeProcs

\* ids of the stored workouts and of the workouts one enrolment creates
AtomicWorkoutIds == 1..(NumWorkouts + MaxPlanWorkouts)

\* the stored plans: none, one week-1 workout after a week-2 workout, or two
\* week-1 workouts
AtomicPlans(k) ==
    {NoDoc,
     PlanDoc(k, <<PlanWorkout(2), PlanWorkout(1)>>),
     PlanDoc(k, <<PlanWorkout(1), PlanWorkout(1)>>)}

InitAtomic ==
    /\ clock = 0
    /\ goals = [g \in GoalIds |-> NoDoc]
    /\ nextGoal = 1
    /\ metrics = [u \in Users |-> <<>>]
    /\ prs \in {{}, {PastRecord("u1", 1, 1)}}
    /\ workouts = {}
    /\ workoutDocs \in [AtomicWorkoutIds ->
                           {NoDoc} \cup {WorkoutDoc(w, "u1") : w \in WorkoutIds}]
    /\ \A w \in WorkoutIds : workoutDocs[w] \in {NoDoc, WorkoutDoc(w, "u1")}
    /\ \A w \in AtomicWorkoutIds \ WorkoutIds : workoutDocs[w] = NoDoc
    /\ workoutPlans \in [PlanIds -> UNION {AtomicPlans(k) : k \in PlanIds}]
    /\ \A k \in PlanIds : workoutPlans[k] \in AtomicPlans(k)
    /\ workoutPlanEnrollments = {}
    /\ jobLogs = {}
    /\ procs = [p \in ProcIds |-> IdleProc]
    /\ faults = MaxFaults
    /\ SchedulerConstructed

NextAtomic ==
    \/ Tick
    \/ \E p \in ProcIds : StoreFault(p)
    \/ \E p \in CompleteProcs, u \in Users, w \in WorkoutIds, x \in WorkoutInputs :
          CallCompleteWorkout(p, u, w, x)
    \/ \E p \in FreeProcs, u \in Users, r \in Roles, w \in WorkoutIds :
          \E st \in {"scheduled", "skipped"} : CallUpdateWorkout(p, u, r, w, st)
    \/ \E p \in FreeProcs, u \in Users, r \in Roles, w \in WorkoutIds :
          CallDeleteWorkout(p, u, r, w)
    \/ \E p \in FreeProcs, u \in Users : CallCreateWorkout(p, u)
    \/ \E p \in FreeProcs, u \in Users, k \in PlanIds : CallEnrollUserInPlan(p, u, k)
    \/ \E p \in FreeProcs, k \in PlanIds : CallDeleteWorkoutPlan(p, k)
    \/ \E p \in FreeProcs, k \in PlanIds : CallUpdateWorkoutPlan(p, k, <<PlanWorkout(2)>>)
    \/ \E p \in FreeProcs : CallCreateWorkoutPlan(p, "u2", <<PlanWorkout(1)>>)
    \/ \E p \in ProcIds : StepPlanCreateSet(p)
    \/ \E p \in ProcIds : StepPlanUpdate(p)
    \/ \E p \in ProcIds : StepPlanReread(p)
    \/ \E p \in ProcIds : StepEnrollFind(p)
    \/ \E p \in ProcIds : StepEnrollCheck(p)
    \/ \E p \in ProcIds : StepEnrollQuery(p)
    \/ \E p \in ProcIds : StepEnrollSet(p)
    \/ \E p \in ProcIds : StepEnrollCount(p)
    \/ \E p \in ProcIds : StepEnrollUpdate(p)
    \/ \E p \in ProcIds : StepEnrollCreate(p)
    \/ \E p \in ProcIds : StepPlanGet(p)
    \/ \E p \in ProcIds : StepPlanDelete(p)
    \/ \E p \in ProcIds : StepWFind(p)
    \/ \E p \in ProcIds : StepWLog(p)
    \/ \E p \in ProcIds : StepPRQuery(p)
    \/ \E p \in ProcIds : StepPRUpdate(p)
    \/ \E p \in ProcIds : StepPRSet(p)
    \/ \E p \in ProcIds : StepPRList(p)
    \/ \E p \in ProcIds : StepWGet(p)
    \/ \E p \in ProcIds : StepWWrite(p)
    \/ \E p \in ProcIds : StepWDeleteDoc(p)
    \/ \E p \in ProcIds : StepWCreateSet(p)
    \/ \E p \in ProcIds : StepWReread(p)

SpecAtomic == InitAtomic /\ [][NextAtomic]_vars

\* the exercises of a completion whose candidate is offered to the upserter
Qualifying(exs) ==
    {k \in 1..Len(exs) : Candidate(exs[k]).weight > 0 /\ Candidate(exs[k]).reps > 0}

\* a failed call has written nothing: no completion, no record, no workout status
FailedLeavesNothing(pr) ==
    /\ workouts = {}
    /\ pr.changed = {}
    /\ pr.wrote = {}

\* a call that returned has logged, upserted and set the workout completed
ReturnedDidAll(pr) ==
    /\ \E wp \in workouts : wp.id = pr.wp.id /\ wp.userId = pr.user
    /\ {pr.upserts[k].i : k \in 1..Len(pr.upserts)} = Qualifying(pr.exs)
    /\ pr.wrote = {pr.workout}

\* the outcome of a completeWorkout call is all or nothing
AllOrNothing(pr) ==
    /\ pr.outcome = "threw" => FailedLeavesNothing(pr)
    /\ pr.outcome = "returned" => ReturnedDidAll(pr)

\* C29: a completeWorkout call that failed has logged no completion, changed no
\* personal record and left the workout's status as it was; one that returned has
\* logged the completion, offered every qualifying exercise and completed the workout
C29_CompleteWorkoutAllOrNothing ==
    \A p \in ProcIds : procs[p].op = "completeWorkout" => AllOrNothing(procs[p])


(***************************************************************************)
(* Executions of expire-goals that may overlap: a fire of the schedule and *)
(* a manual trigger, or two fires, with nothing else touching the goals    *)
(***************************************************************************)
InitOverlap ==
    /\ clock = 0
    /\ goals \in [GoalIds -> UNION {JobDocs(g) : g \in GoalIds}]
    /\ \A g \in GoalIds : goals[g] \in JobDocs(g)
    /\ nextGoal = NumGoals + 1
    /\ metrics = [u \in Users |-> <<>>]
    /\ prs = {}
    /\ workouts = {}
    /\ workoutDocs = [w \in WorkoutIds |-> NoDoc]
    /\ jobLogs = {}
    /\ procs = [p \in ProcIds |-> IdleProc]
    /\ PlansEmpty
    /\ faults = 0
    /\ SchedulerConstructed

NextOverlap ==
    \/ Tick
    \/ \E p \in FreeProcs, t \in {"cron", "manual"} : CallExecuteJob(p, "expire-goals", t)
    \/ \E p \in ProcIds : StepLoad(p)
    \/ \E p \in ProcIds : StepGet(p)
    \/ \E p \in ProcIds : StepWrite(p)
    \/ \E p \in ProcIds : StepReread(p)
    \/ \E p \in ProcIds : StepLog(p)

SpecOverlap == InitOverlap /\ [][NextOverlap]_vars

\* the executions of expire-goals that have ended
ExpireRuns == {p \in ProcIds : UnitEnded(procs[p], "expire-goals") /\ procs[p].pc = "done"}

RECURSIVE SumItems(_)
\* the sum of itemsProcessed over the runs of S
SumItems(S) ==
    IF S = {} THEN 0
    ELSE LET p == CHOOSE q \in S : TRUE
         IN  procs[p].result.itemsProcessed + SumItems(S \ {p})

\* goal g was active when run p loaded its snapshot
LoadedActive(p, g) == procs[p].before[g].id # 0 /\ procs[p].before[g].status = "active"

\* the goals some run loaded as active that are expired now
ExpiredByRuns ==
    {g \in GoalIds : /\ \E p \in ExpireRuns : LoadedActive(p, g)
                     /\ goals[g].status = "expired"}

\* the time of the latest load among the runs
LastNow == CHOOSE t \in {procs[p].now : p \in ExpireRuns} :
               \A p \in ExpireRuns : procs[p].now <= t

\* every goal is in the state one run loading at the latest time leaves it in
AsAfterSingleRun ==
    \A g \in GoalIds : \A p \in ExpireRuns :
        LoadedActive(p, g) =>
            goals[g].status = IF goals[g].deadline < LastNow THEN "expired" ELSE "active"

\* C30: when two executions of expire-goals have ended, overlapping or not, the sum
\* of their itemsProcessed is the number of goals that went from active to expired,
\* and the goals are in the state a single run leaves them in
C30_OverlappingRunsCountOnce ==
    (Cardinality(ExpireRuns) >= 2 /\ \A p \in ProcIds : ~Running(p)) =>
        /\ SumItems(ExpireRuns) = Cardinality(ExpiredByRuns)
        /\ AsAfterSingleRun

=============================================================================
